---------------------------- MODULE Spec2Model ----------------------------
(***************************************************************************)
(* A model of the VCI access core of PyPSADiag-Enhanced:                   *)
(*   - SharedVCIBridge (the broker): accept loop, per-connection receive   *)
(*     loops, the shared request queue, the single worker, stop_server;    *)
(*   - the bridge subprocess as its parent sees it: a pipe of commands, a  *)
(*     sequential command loop (VCIBridge.run) and the response queue;     *)
(*   - VCIAdapter (the in-process client) used by concurrent callers;      *)
(*   - VCIBridge (the bridge process): configure / send_receive against    *)
(*     the native driver.                                                  *)
(***************************************************************************)
EXTENDS Integers, Sequences, FiniteSets, TLC

(***************************************************************************)
(* Bounds of the model.                                                    *)
(***************************************************************************)
MaxConns == 2       \* connections the broker accepts in one run
MaxReqs == 2        \* requests received by the broker in one run
MaxCalls == 3       \* public calls made on one VCIAdapter in one run
MaxCycleCalls == 5   \* public calls made in one run of connect/disconnect cycles
MaxBuffer == 3       \* bytes of the driver's output buffer

VARIABLES
    \* ---- SharedVCIBridge ------------------------------------------------
    running,          \* self.running
    clients,          \* self.clients: client id (the k of "client_k") -> socket
    handlers,         \* live _handle_client threads: socket -> its client_id
    request_queue,    \* self.request_queue
    current_client,   \* self.current_client (-1 is None)
    vci_connected,    \* self.vci_connected
    vci_lock,         \* self.vci_lock: "free" or the thread holding it
    wpc,              \* the worker thread's position in _handle_requests
    wreq,             \* the request the worker is processing
    mpc,              \* the main thread: serving, inside stop_server, stopped
    nconn,            \* connections accepted so far (sockets are 1..nconn)
    nreq,             \* requests enqueued so far (a request's rid is its rank)
    execLog,          \* rids in the order the worker dispatched them
    lastHanded,       \* the last data the worker got: <<request rid, id of the command answered>>
    lastWrite,        \* the last response sent: the request, its socket, the socket written
    \* ---- the bridge subprocess and its pipes ------------------------------
    proc,             \* vci_bridge_process: "none", "running", "exited"
    stdin,            \* commands written to the process and not yet read
    bexec,            \* commands the process is executing on the driver
    respq,            \* vci_response_queue / response_queue
    \* ---- VCIAdapter, shared by concurrent callers -------------------------
    a_connected,      \* VCIAdapter.connected
    a_configured,     \* VCIAdapter.configured
    cpc,              \* per caller: "idle", or "waiting" inside _send_command
    cop,              \* per caller: the public operation in progress
    ccmd,             \* per caller: the command it waits on (name, id of the call)
    ncalls,           \* public calls made so far (a call's id is its rank)
    lastGot,          \* the last response handed to a caller, and where it came from
    \* ---- VCIBridge, the bridge process ------------------------------------
    vci,              \* self.vci is not None: the driver DLL was loaded
    connected,        \* self.connected
    currEcuDesc,      \* self.currEcuDesc (NoDesc is None)
    active_protocol,  \* self.active_protocol ("None" is None)
    cmd_data,         \* the command line run() has read (NoCommand between commands)
    handled,          \* handle_command has returned for cmd_data
    last,             \* what the last handle_command did: result, driver calls, state before
    boundDesc,        \* the descriptor stored by the most recent configure that succeeded
    responses,        \* the non-log message types printed since the command was read
    \* ---- VCIAdapter.configure, one call ---------------------------------
    cfg_args,         \* the arguments of the call (protocol, bus, target, dialog_type)
    cfg_params,       \* the params of the configure command it sends (NoParams before)
    \* ---- VCIAdapter and the processes it starts, one caller --------------
    bridge_process,   \* self.bridge_process: 0 is None, else the process it names
    alive,            \* the bridge processes started by the adapter that are alive
    started,          \* processes started so far (they are 1..started)
    lpc,              \* the caller: "idle", or "stopping" inside stop_bridge
    l_op,             \* the last operation sent through _send_command, and what it did
    l_cfg,            \* what the last configure call returned: "none", "failed", "succeeded"
    \* ---- VCIBridge.send_receive, one exchange with a driver -------------
    sr_args,          \* the payload, and what the driver does: output buffer, result
    sr_out,           \* what send_receive passed to the driver and returned (NoOut before)
    \* ---- VCIAdapter.send_receive, one call and its wait -----------------
    w_T,              \* the caller's timeout, in milliseconds
    w_silent,         \* the bridge never responds to the command
    w_pc,             \* "idle", "waiting" in _send_command's loop, "returned"
    w_elapsed,        \* seconds spent in the wait loop
    w_result,         \* what send_receive returned ("none" before)
    \* ---- the reader thread of a bridge's parent, and one waiting request --
    out_stream,       \* the lines the bridge printed that the reader has not read yet
    response_queue,   \* self.response_queue / self.vci_response_queue
    r_logged,         \* the messages the reader logged
    r_expected,       \* expected_response of the request that waits
    r_pc,             \* the request: "waiting" in the loop of _send_command, "returned"
    r_returned,       \* the message whose data the request returned (NoLine: None)
    \* ---- VCIBridge.ecuToEcuDescriptor, one call for a CAN diagnostic ECU --
    d_args,           \* the tx and rx ids of the call, hexadecimal digit strings
    d_pc,             \* "call" before the call, "returned" after
    d_out,            \* the bytes of the descriptor it returned (NoDesc before)
    \* ---- SharedVCIBridge._handle_client, messages that are not JSON ------
    lastInvalid       \* the last 'Invalid JSON request' written: message number, socket

brokerVars == <<running, clients, handlers, request_queue, current_client,
                vci_connected, vci_lock, wpc, wreq, mpc, nconn, nreq,
                execLog, lastHanded, lastWrite>>
procVars == <<proc, stdin, bexec, respq>>
adapterVars == <<a_connected, a_configured, cpc, cop, ccmd, ncalls, lastGot>>
bridgeVars == <<vci, connected, currEcuDesc, active_protocol, cmd_data, handled, last,
                boundDesc, responses>>
mapVars == <<cfg_args, cfg_params>>
cycleVars == <<bridge_process, alive, started, lpc>>
opVars == <<l_op, l_cfg>>
exchangeVars == <<sr_args, sr_out>>
waitVars == <<w_T, w_silent, w_pc, w_elapsed, w_result>>
readerVars == <<out_stream, response_queue, r_logged, r_expected, r_pc, r_returned>>
descVars == <<d_args, d_pc, d_out>>
msgVars == <<lastInvalid>>
vars == <<brokerVars, procVars, adapterVars, bridgeVars, mapVars, cycleVars, exchangeVars, waitVars, opVars, readerVars, descVars, msgVars>>

None == -1
NoReq == [rid |-> 0, client_id |-> None, sock |-> 0, command |-> "none"]

(***************************************************************************)
(* Helpers on sequences and functions.                                     *)
(***************************************************************************)
RemoveAt(q, i) == [j \in 1..(Len(q) - 1) |-> IF j < i THEN q[j] ELSE q[j + 1]]
DropKey(f, k) == [x \in (DOMAIN f) \ {k} |-> f[x]]
PutKey(f, k, v) == [x \in (DOMAIN f) \cup {k} |-> IF x = k THEN v ELSE f[x]]

(***************************************************************************)
(* The wire contract: a response is tagged <command>_response.             *)
(***************************************************************************)
ResponseTag(command) == command \o "_response"

(***************************************************************************)
(* The request vocabulary of _process_vci_request. Clients send            *)
(* configure_ecu with an ecu_config and send_request with a service_id.    *)
(***************************************************************************)
BrokerCommands ==
    {"connect", "disconnect", "configure_ecu", "send_request", "get_status", "unknown"}

(***************************************************************************)
(* The bridge subprocess: VCIBridge.run reads one line, handles it to the  *)
(* end (handle_command returns after send_response), then reads the next.  *)
(***************************************************************************)
BridgeCanReadThreaded == TRUE
BridgeCanRead == bexec = <<>>

BridgeRead ==
    /\ proc = "running"
    /\ BridgeCanRead
    /\ stdin # <<>>
    /\ bexec' = Append(bexec, Head(stdin))
    /\ stdin' = Tail(stdin)
    /\ UNCHANGED <<proc, respq>>

\* handle_command: the driver calls return and the one response is printed;
\* the reader thread of the parent puts it on the response queue.
BridgeRespond ==
    \E i \in DOMAIN bexec, ok \in BOOLEAN :
        LET cmd == bexec[i] IN
        /\ cmd.name = "quit" => ok
        /\ bexec' = RemoveAt(bexec, i)
        /\ respq' = Append(respq, [tag |-> ResponseTag(cmd.name), id |-> cmd.id,
                                    by |-> cmd.by, ok |-> ok])
        /\ proc' = IF cmd.name = "quit" THEN "exited" ELSE proc
        /\ UNCHANGED stdin

\* _send_vci_command / _send_command up to the wait loop: the command is
\* written to the pipe of the process
WriteCommand(thread, name, id) ==
    stdin' = Append(stdin, [name |-> name, id |-> id, by |-> thread])

(***************************************************************************)
(* SharedVCIBridge.start_server: the accept loop.                          *)
(***************************************************************************)
NewClientId == Cardinality(DOMAIN clients)

\* one pass of the accept loop, in a run that accepts at most limit connections
AcceptAt(limit) ==
    /\ mpc = "serving"
    /\ nconn < limit
    /\ nconn' = nconn + 1
    /\ clients' = PutKey(clients, NewClientId, nconn + 1)
    /\ handlers' = PutKey(handlers, nconn + 1, NewClientId)
    /\ UNCHANGED <<running, request_queue, current_client, vci_connected, vci_lock,
                   wpc, wreq, mpc, nreq, execLog, lastHanded, lastWrite>>
    /\ UNCHANGED procVars

\* _handle_get_status: 'active_clients': len(self.clients)
active_clients == Cardinality(DOMAIN clients)

Accept == AcceptAt(MaxConns)

\* the accept loop in the runs that look at the session table: one more
\* connection, so that a client id can be given out while another
\* connection still holds it
MaxSessions == MaxConns + 1
AcceptSession == AcceptAt(MaxSessions)

(***************************************************************************)
(* SharedVCIBridge._handle_client: one message received and enqueued; the  *)
(* loop condition is read again after it. The finally block removes        *)
(* clients[client_id] and closes the socket.                               *)
(***************************************************************************)
HandlerCleanup(s) ==
    /\ clients' = IF handlers[s] \in DOMAIN clients THEN DropKey(clients, handlers[s]) ELSE clients
    /\ handlers' = DropKey(handlers, s)

HandlerRecv(s) ==
    /\ s \in DOMAIN handlers
    /\ nreq < MaxReqs
    /\ \E command \in BrokerCommands :
        request_queue' = Append(request_queue,
            [rid |-> nreq + 1, client_id |-> handlers[s], sock |-> s, command |-> command])
    /\ nreq' = nreq + 1
    /\ IF running THEN UNCHANGED <<clients, handlers>> ELSE HandlerCleanup(s)
    /\ UNCHANGED <<running, current_client, vci_connected, vci_lock, wpc, wreq, mpc,
                   nconn, execLog, lastHanded, lastWrite>>
    /\ UNCHANGED procVars

\* json.loads raises JSONDecodeError: the handler thread writes the error
\* response to its own socket itself; nothing is enqueued
HandlerRecvInvalid(s) ==
    /\ s \in DOMAIN handlers
    /\ nreq < MaxReqs
    /\ nreq' = nreq + 1
    /\ lastInvalid' = [rid |-> nreq + 1, to |-> s]
    /\ IF running THEN UNCHANGED <<clients, handlers>> ELSE HandlerCleanup(s)
    /\ UNCHANGED <<running, request_queue, current_client, vci_connected, vci_lock, wpc, wreq,
                   mpc, nconn, execLog, lastHanded, lastWrite>>
    /\ UNCHANGED procVars

\* recv returns no data (the peer closed) or raises socket.error
HandlerClose(s) ==
    /\ s \in DOMAIN handlers
    /\ HandlerCleanup(s)
    /\ UNCHANGED <<running, request_queue, current_client, vci_connected, vci_lock,
                   wpc, wreq, mpc, nconn, nreq, execLog, lastHanded, lastWrite>>
    /\ UNCHANGED procVars

(***************************************************************************)
(* SharedVCIBridge._handle_requests: the single worker.                    *)
(***************************************************************************)
QueueGetIndexLifo(q) == Len(q)
QueueGetIndex(q) == 1

\* _handle_requests, after the lock is released: the response goes to the
\* socket that self.clients holds under the request's client_id, if any.
Reply(req, status) ==
    /\ lastWrite' = [rid |-> req.rid, origin |-> req.sock, status |-> status,
                     to |-> IF req.client_id \in DOMAIN clients
                            THEN clients[req.client_id] ELSE 0]
    /\ wpc' = IF running THEN "idle" ELSE "exit"
    /\ wreq' = NoReq
    /\ vci_lock' = "free"

\* request_queue.get and the dispatch of _process_vci_request
Dequeue(req) ==
    /\ wpc = "idle"
    /\ request_queue # <<>>
    /\ req = request_queue[QueueGetIndex(request_queue)]
    /\ request_queue' = RemoveAt(request_queue, QueueGetIndex(request_queue))
    /\ execLog' = Append(execLog, req.rid)

\* the worker enters _send_vci_command for req
WorkerSend(req, name) ==
    IF proc = "running"
    THEN /\ WriteCommand("worker", name, req.rid)
         /\ wpc' = "waiting"
         /\ wreq' = req
         /\ vci_lock' = "worker"
         /\ UNCHANGED <<lastWrite, proc, bexec, respq>>
    ELSE /\ Reply(req, "error")
         /\ UNCHANGED procVars

BridgeCommandOf(command) ==
    CASE command = "connect" -> "connect"
      [] command = "configure_ecu" -> "configure"
      [] command = "send_request" -> "send_receive"
      [] OTHER -> "none"

\* _handle_connect
WorkerConnect ==
    \E req \in {request_queue[i] : i \in DOMAIN request_queue} :
        /\ Dequeue(req)
        /\ req.command = "connect"
        /\ \/ /\ vci_connected
              /\ current_client' = req.client_id
              /\ Reply(req, "success")
              /\ UNCHANGED procVars
           \/ /\ ~vci_connected
              /\ proc = "running"        \* _start_vci_bridge_process: already running
              /\ WorkerSend(req, "connect")
              /\ UNCHANGED current_client
           \/ /\ ~vci_connected
              /\ proc # "running"        \* Popen succeeds: a new process, new pipes
              /\ proc' = "running"
              /\ stdin' = <<[name |-> "connect", id |-> req.rid, by |-> "worker"]>>
              /\ bexec' = <<>>
              /\ wpc' = "waiting"
              /\ wreq' = req
              /\ vci_lock' = "worker"
              /\ UNCHANGED <<current_client, lastWrite, respq>>
           \/ /\ ~vci_connected
              /\ proc # "running"        \* no 32-bit runtime found, or Popen raises
              /\ Reply(req, "error")
              /\ UNCHANGED <<current_client, procVars>>
        /\ UNCHANGED <<running, clients, handlers, vci_connected, mpc, nconn, nreq, lastHanded>>

\* a disconnect that tears the bridge process down, as VCIAdapter.disconnect does
WorkerDisconnectStops ==
    \E req \in {request_queue[i] : i \in DOMAIN request_queue} :
        /\ Dequeue(req)
        /\ req.command = "disconnect"
        /\ current_client' = IF current_client = req.client_id THEN None ELSE current_client
        /\ Reply(req, "success")
        /\ proc' = IF proc = "running" THEN "exited" ELSE proc
        /\ UNCHANGED <<running, clients, handlers, vci_connected, mpc, nconn, nreq, lastHanded>>
        /\ UNCHANGED <<stdin, bexec, respq>>

\* _handle_disconnect
WorkerDisconnect ==
    \E req \in {request_queue[i] : i \in DOMAIN request_queue} :
        /\ Dequeue(req)
        /\ req.command = "disconnect"
        /\ current_client' = IF current_client = req.client_id THEN None ELSE current_client
        /\ Reply(req, "success")
        /\ UNCHANGED <<running, clients, handlers, vci_connected, mpc, nconn, nreq, lastHanded>>
        /\ UNCHANGED procVars

\* _handle_configure_ecu and _handle_send_request
WorkerBridgeRequest ==
    \E req \in {request_queue[i] : i \in DOMAIN request_queue} :
        /\ Dequeue(req)
        /\ req.command \in {"configure_ecu", "send_request"}
        /\ WorkerSend(req, BridgeCommandOf(req.command))
        /\ UNCHANGED <<running, clients, handlers, current_client, vci_connected, mpc,
                       nconn, nreq, lastHanded>>

\* _handle_get_status
WorkerGetStatus ==
    \E req \in {request_queue[i] : i \in DOMAIN request_queue} :
        /\ Dequeue(req)
        /\ req.command = "get_status"
        /\ Reply(req, "success")
        /\ UNCHANGED <<running, clients, handlers, current_client, vci_connected, mpc,
                       nconn, nreq, lastHanded>>
        /\ UNCHANGED procVars

\* _process_vci_request: any other command is answered with an error
WorkerUnknown ==
    \E req \in {request_queue[i] : i \in DOMAIN request_queue} :
        /\ Dequeue(req)
        /\ req.command \notin
              {"connect", "disconnect", "configure_ecu", "send_request", "get_status"}
        /\ Reply(req, "error")
        /\ UNCHANGED <<running, clients, handlers, current_client, vci_connected, mpc,
                       nconn, nreq, lastHanded>>
        /\ UNCHANGED procVars

\* a worker that records the caller as owner whatever the connect's result
WorkerPollOwnerAlways ==
    /\ wpc = "waiting"
    /\ respq # <<>>
    /\ respq' = Tail(respq)
    /\ LET r == Head(respq) IN
       IF r.tag = ResponseTag(BridgeCommandOf(wreq.command))
       THEN /\ lastHanded' = <<wreq.rid, r.id>>
            /\ vci_connected' = IF wreq.command = "connect" /\ r.ok THEN TRUE ELSE vci_connected
            /\ current_client' = IF wreq.command = "connect"
                                 THEN wreq.client_id ELSE current_client
            /\ Reply(wreq, IF r.ok THEN "success" ELSE "error")
       ELSE UNCHANGED <<lastHanded, vci_connected, current_client, lastWrite, wpc, wreq, vci_lock>>
    /\ UNCHANGED <<running, clients, handlers, request_queue, mpc, nconn, nreq, execLog>>
    /\ UNCHANGED <<proc, stdin, bexec>>

\* _send_vci_command's wait loop: one vci_response_queue.get that returns
WorkerPoll ==
    /\ wpc = "waiting"
    /\ respq # <<>>
    /\ respq' = Tail(respq)
    /\ LET r == Head(respq) IN
       IF r.tag = ResponseTag(BridgeCommandOf(wreq.command))
       THEN /\ lastHanded' = <<wreq.rid, r.id>>
            /\ vci_connected' = IF wreq.command = "connect" /\ r.ok THEN TRUE ELSE vci_connected
            /\ current_client' = IF wreq.command = "connect" /\ r.ok
                                 THEN wreq.client_id ELSE current_client
            /\ Reply(wreq, IF r.ok THEN "success" ELSE "error")
       ELSE UNCHANGED <<lastHanded, vci_connected, current_client, lastWrite, wpc, wreq, vci_lock>>
    /\ UNCHANGED <<running, clients, handlers, request_queue, mpc, nconn, nreq, execLog>>
    /\ UNCHANGED <<proc, stdin, bexec>>

\* a worker that writes the command again when its wait times out
WorkerTimeoutRetry ==
    /\ wpc = "waiting"
    /\ respq = <<>>
    /\ proc = "running"
    /\ WriteCommand("worker", BridgeCommandOf(wreq.command), wreq.rid)
    /\ UNCHANGED <<running, clients, handlers, request_queue, current_client,
                   vci_connected, vci_lock, wpc, wreq, mpc, nconn, nreq, execLog,
                   lastHanded, lastWrite>>
    /\ UNCHANGED <<proc, bexec, respq>>

\* a worker that leaves the operation on timeout without answering the request
WorkerTimeoutSilent ==
    /\ wpc = "waiting"
    /\ respq = <<>>
    /\ wpc' = IF running THEN "idle" ELSE "exit"
    /\ wreq' = NoReq
    /\ vci_lock' = "free"
    /\ UNCHANGED <<running, clients, handlers, request_queue, current_client,
                   vci_connected, mpc, nconn, nreq, execLog, lastHanded, lastWrite>>
    /\ UNCHANGED procVars

\* _send_vci_command: the timeout elapses with nothing on the queue
WorkerTimeout ==
    /\ wpc = "waiting"
    /\ respq = <<>>
    /\ Reply(wreq, "error")
    /\ UNCHANGED <<running, clients, handlers, request_queue, current_client,
                   vci_connected, mpc, nconn, nreq, execLog, lastHanded>>
    /\ UNCHANGED procVars

\* request_queue.get times out on an empty queue and the loop sees running False
WorkerExit ==
    /\ wpc = "idle"
    /\ ~running
    /\ request_queue = <<>>
    /\ wpc' = "exit"
    /\ UNCHANGED <<running, clients, handlers, request_queue, current_client,
                   vci_connected, vci_lock, wreq, mpc, nconn, nreq, execLog, lastHanded, lastWrite>>
    /\ UNCHANGED procVars

(***************************************************************************)
(* SharedVCIBridge.stop_server, on the main thread (start_shared_vci_server*)
(* calls it from its KeyboardInterrupt handler), and                       *)
(* _stop_vci_bridge_process.                                               *)
(***************************************************************************)
StopServer ==
    /\ mpc = "serving"
    /\ running' = FALSE
    /\ IF proc = "running"
       THEN /\ WriteCommand("main", "quit", 0)
            /\ mpc' = "quit_wait"
            /\ UNCHANGED <<vci_connected, proc, bexec, respq>>
       ELSE /\ mpc' = "stopped"
            /\ vci_connected' = FALSE
            /\ proc' = "none"
            /\ UNCHANGED <<stdin, bexec, respq>>
    /\ UNCHANGED <<clients, handlers, request_queue, current_client, vci_lock, wpc, wreq,
                   nconn, nreq, execLog, lastHanded, lastWrite>>

\* wait(5), terminate(), and the finally block
StopFinish ==
    /\ mpc' = "stopped"
    /\ proc' = "none"
    /\ stdin' = <<>>
    /\ bexec' = <<>>
    /\ vci_connected' = FALSE

\* the main thread's wait loop inside _send_vci_command("quit")
MainPoll ==
    /\ mpc = "quit_wait"
    /\ respq # <<>>
    /\ respq' = Tail(respq)
    /\ IF Head(respq).tag = ResponseTag("quit")
       THEN StopFinish
       ELSE UNCHANGED <<mpc, proc, stdin, bexec, vci_connected>>
    /\ UNCHANGED <<running, clients, handlers, request_queue, current_client, vci_lock,
                   wpc, wreq, nconn, nreq, execLog, lastHanded, lastWrite>>

MainTimeout ==
    /\ mpc = "quit_wait"
    /\ respq = <<>>
    /\ StopFinish
    /\ UNCHANGED respq
    /\ UNCHANGED <<running, clients, handlers, request_queue, current_client, vci_lock,
                   wpc, wreq, nconn, nreq, execLog, lastHanded, lastWrite>>

(***************************************************************************)
(* VCIAdapter: connect, configure and send_receive called by the threads   *)
(* of Callers on one adapter object. _send_command writes the command and  *)
(* then polls response_queue for the first response tagged                  *)
(* <command>_response.                                                     *)
(***************************************************************************)
Callers == {"c1", "c2"}
NoCmd == [name |-> "none", id |-> 0]

TagMatchesAny(tag, command) == TRUE
TagMatches(tag, command) == tag = ResponseTag(command)

\* _send_command up to its wait loop, for caller c
AdapterSend(c, op, name, id) ==
    /\ WriteCommand(c, name, id)
    /\ cpc' = [cpc EXCEPT ![c] = "waiting"]
    /\ cop' = [cop EXCEPT ![c] = op]
    /\ ccmd' = [ccmd EXCEPT ![c] = [name |-> name, id |-> id]]

\* the public call returns to caller c
AdapterReturn(c) ==
    /\ cpc' = [cpc EXCEPT ![c] = "idle"]
    /\ cop' = [cop EXCEPT ![c] = "none"]
    /\ ccmd' = [ccmd EXCEPT ![c] = NoCmd]

\* connect(): start_bridge, then _send_command("connect"); configure() calls
\* it first when the adapter is not connected.
AdapterConnect(c, op) ==
    \/ /\ proc = "running"               \* start_bridge: already running
       /\ AdapterSend(c, op, "connect", ncalls + 1)
       /\ UNCHANGED <<proc, bexec>>
    \/ /\ proc # "running"               \* Popen succeeds: a new process, new pipes
       /\ proc' = "running"
       /\ stdin' = <<[name |-> "connect", id |-> ncalls + 1, by |-> c]>>
       /\ bexec' = <<>>
       /\ cpc' = [cpc EXCEPT ![c] = "waiting"]
       /\ cop' = [cop EXCEPT ![c] = op]
       /\ ccmd' = [ccmd EXCEPT ![c] = [name |-> "connect", id |-> ncalls + 1]]
    \/ /\ proc # "running"               \* no 32-bit runtime found, or Popen raises
       /\ UNCHANGED <<proc, stdin, bexec, cpc, cop, ccmd>>

ACallConnect(c) ==
    /\ cpc[c] = "idle"
    /\ ncalls < MaxCalls
    /\ ncalls' = ncalls + 1
    /\ AdapterConnect(c, "connect")
    /\ UNCHANGED <<respq, a_connected, a_configured, lastGot>>

ACallConfigure(c) ==
    /\ cpc[c] = "idle"
    /\ ncalls < MaxCalls
    /\ ncalls' = ncalls + 1
    /\ IF ~a_connected
       THEN AdapterConnect(c, "configure")
       ELSE IF proc = "running"
            THEN AdapterSend(c, "configure", "configure", ncalls + 1) /\ UNCHANGED <<proc, bexec>>
            ELSE UNCHANGED <<proc, stdin, bexec, cpc, cop, ccmd>>
    /\ UNCHANGED <<respq, a_connected, a_configured, lastGot>>

ACallSendReceive(c) ==
    /\ cpc[c] = "idle"
    /\ ncalls < MaxCalls
    /\ ncalls' = ncalls + 1
    /\ IF a_configured /\ proc = "running"
       THEN AdapterSend(c, "send_receive", "send_receive", ncalls + 1)
       ELSE UNCHANGED <<stdin, cpc, cop, ccmd>>
    /\ UNCHANGED <<proc, bexec, respq, a_connected, a_configured, lastGot>>

\* _send_command's wait loop: one response_queue.get that returns
APoll(c) ==
    /\ cpc[c] = "waiting"
    /\ respq # <<>>
    /\ respq' = Tail(respq)
    /\ LET r == Head(respq) IN
       IF TagMatches(r.tag, ccmd[c].name)
       THEN /\ lastGot' = [caller |-> c, name |-> ccmd[c].name, id |-> ccmd[c].id,
                           tag |-> r.tag, from |-> r.id, fromBy |-> r.by]
            /\ a_connected' = IF ccmd[c].name = "connect" /\ r.ok THEN TRUE ELSE a_connected
            /\ a_configured' = IF ccmd[c].name = "configure" /\ r.ok THEN TRUE ELSE a_configured
            /\ IF cop[c] = "configure" /\ ccmd[c].name = "connect" /\ r.ok /\ proc = "running"
               THEN AdapterSend(c, "configure", "configure", ccmd[c].id)
               ELSE AdapterReturn(c) /\ UNCHANGED stdin
       ELSE UNCHANGED <<lastGot, a_connected, a_configured, cpc, cop, ccmd, stdin>>
    /\ UNCHANGED <<proc, bexec, ncalls>>

\* _send_command: the timeout elapses with nothing on the queue
ATimeout(c) ==
    /\ cpc[c] = "waiting"
    /\ respq = <<>>
    /\ AdapterReturn(c)
    /\ UNCHANGED <<procVars, a_connected, a_configured, ncalls, lastGot>>

(***************************************************************************)
(* VCIBridge: the bridge process and the native driver. Hex strings are    *)
(* sequences of hex digits (0..15); None and the empty string, both falsy, *)
(* are the empty sequence. Descriptors are sequences of bytes.             *)
(***************************************************************************)
KWP2000_PSA == 1
DIAG_ON_CAN == 3
KWP_ON_CAN_FIAT == 7
LINE_CAN_DIAG == 17
LINE_CAN_IS == 18
LINE_CAN_FIAT_LS6 == 47
LINE_CAN_FIAT_LS3 == 48
DefaultTarget == 13
pd_DIAG_ON_CAN == <<3, 16, 232>>
pd_KWP_ON_CAN_FIAT == <<7>>
pd_KWP2000PSA == <<1, 0>>

NoDesc == <<-1>>
NoCommand == [command |-> "none"]
NoLast == [success |-> FALSE, response |-> <<>>, calls |-> <<>>,
           preDesc |-> NoDesc, preProto |-> "None", preConnected |-> FALSE]

\* re.findall('.{1,2}', inp) and int(by, 16) of each piece
RECURSIVE HexPairs(_)
HexPairs(s) ==
    IF Len(s) = 0 THEN <<>>
    ELSE IF Len(s) = 1 THEN <<s[1]>>
    ELSE <<16 * s[1] + s[2]>> \o HexPairs(SubSeq(s, 3, Len(s)))

strby_to_char(inp) == HexPairs(inp)

\* hex(b).replace("0x", "").upper().zfill(2) of each byte
RECURSIVE BytesToHex(_)
BytesToHex(bs) ==
    IF Len(bs) = 0 THEN <<>>
    ELSE <<bs[1] \div 16, bs[1] % 16>> \o BytesToHex(Tail(bs))

\* int(target, 16), and hex(target_int)[2:].upper().zfill(2)
RECURSIVE HexToInt(_)
HexToInt(s) == IF Len(s) = 0 THEN 0 ELSE 16 * HexToInt(SubSeq(s, 1, Len(s) - 1)) + s[Len(s)]
RECURSIVE IntToHex(_)
IntToHex(n) == IF n < 16 THEN <<n>> ELSE IntToHex(n \div 16) \o <<n % 16>>
ZFill2(h) == IF Len(h) < 2 THEN <<0>> \o h ELSE h

Pad3(h) == IF Len(h) = 3 THEN <<0>> \o h ELSE h

ecuToEcuDescriptor(tx_h, rx_h, protocol, kwp_id) ==
    CASE protocol = DIAG_ON_CAN ->
            IF tx_h # <<>> /\ rx_h # <<>>
            THEN strby_to_char(Pad3(rx_h) \o Pad3(tx_h))
            ELSE NoDesc
      [] protocol = KWP_ON_CAN_FIAT ->
            IF tx_h # <<>> /\ rx_h # <<>> /\ kwp_id # <<>>
            THEN strby_to_char(Pad3(rx_h) \o Pad3(tx_h)
                               \o (IF Len(kwp_id) = 1 THEN <<0>> \o kwp_id ELSE kwp_id)
                               \o <<0, 0>>)
            ELSE NoDesc
      [] protocol = KWP2000_PSA ->
            IF kwp_id # <<>> THEN strby_to_char(kwp_id) ELSE NoDesc
      [] OTHER -> NoDesc

\* a bridge that binds the default descriptor whatever the protocol
protocolToProtocolDescriptorDefault(protocol) == pd_DIAG_ON_CAN
protocolToProtocolDescriptor(protocol) ==
    CASE protocol = DIAG_ON_CAN -> pd_DIAG_ON_CAN
      [] protocol = KWP_ON_CAN_FIAT -> pd_KWP_ON_CAN_FIAT
      [] protocol = KWP2000_PSA -> pd_KWP2000PSA

\* configure: the legacy numeric bus codes
LegacyBus(bus) ==
    CASE bus = "0" -> "IS" [] bus = "1" -> "DIAG" [] bus = "2" -> "DIAG"
      [] bus = "3" -> "IS" [] bus = "4" -> "IS" [] OTHER -> bus
\* a configure that keeps the protocol name supplied with a legacy bus code
LegacyProtocolSupplied(bus, protocol) == protocol
LegacyProtocol(bus, protocol) ==
    CASE bus \in {"0", "1"} -> "DIAGONCAN"
      [] bus \in {"2", "3"} -> "KWPONCAN_FIAT"
      [] bus = "4" -> "PSA2000"
      [] OTHER -> protocol

\* the status codes the driver returns in the model: success (0, 1) and two failures
OpenResults == {0, 1, -4}
StatusResults == {0, -6}
InitResults == {0, 2, -14}
ReadResults == {2, 0, -5, -1}
DriverBuffer == <<126, 0>>

\* the inputs of configure
TxInputs == {<<>>, <<7, 5, 2>>}
RxInputs == {<<>>, <<6, 5, 2>>}
BusInputs == {"DIAG", "IS", "0", "1", "2", "3", "4", "XX"}
ProtocolInputs == {"DIAGONCAN", "KWPONCAN_FIAT", "PSA2000", "BOGUS"}
TargetInputs == {<<>>, <<1, 0>>}
DialogInputs == {0, 1}
ConfigureCommands ==
    [command : {"configure"}, tx_h : TxInputs, rx_h : RxInputs, bus : BusInputs,
     protocol : ProtocolInputs, target : TargetInputs, dialog_type : DialogInputs]
\* the commands handle_command answers, and one it does not know
Vocabulary ==
    {"connect", "disconnect", "configure", "send_receive", "send_receive_multiple",
     "perform_init", "get_analog_data", "quit"}
BridgeCommands ==
    ConfigureCommands \cup [command : (Vocabulary \ {"configure"}) \cup {"reset"}]

\* connect(): _openSession, then the two version queries
ConnectOutcome(rOpen) ==
    IF ~vci THEN [success |-> FALSE, calls |-> <<>>]
    ELSE IF rOpen \in {0, 1}
         THEN [success |-> TRUE,
               calls |-> <<[fn |-> "_openSession", arg |-> <<>>, rc |-> rOpen],
                           [fn |-> "_getVersion", arg |-> <<>>, rc |-> 0],
                           [fn |-> "_getFirmwareVersion", arg |-> <<>>, rc |-> 0]>>]
         ELSE [success |-> FALSE,
               calls |-> <<[fn |-> "_openSession", arg |-> <<>>, rc |-> rOpen]>>]

\* _changeComLine(line) and _bindProtocol(protocol): bind is called only when
\* the line change succeeded
LineAndBind(line, protocol, rLine, rBind) ==
    IF rLine >= 0
    THEN [ok |-> rBind >= 0,
          calls |-> <<[fn |-> "_changeComLine", arg |-> <<line>>, rc |-> rLine],
                      [fn |-> "_bindProtocol",
                       arg |-> protocolToProtocolDescriptor(protocol), rc |-> rBind]>>]
    ELSE [ok |-> FALSE,
          calls |-> <<[fn |-> "_changeComLine", arg |-> <<line>>, rc |-> rLine]>>]

\* a perform_init that takes a zero byte count for a failure
perform_initPositive(result) == result > 0
\* perform_init(): the result of _performInit is a byte count; positive or zero
\* is success
perform_init(result) == result > 0 \/ result = 0

\* configure(), after the session is open: the descriptor is stored first, then
\* the line is selected and the protocol bound.
ConfigureBody(p, rLine, rBind, rInit) ==
    LET bus == LegacyBus(p.bus)
        protocol == LegacyProtocol(p.bus, p.protocol)
        can == IF protocol = "DIAGONCAN" THEN DIAG_ON_CAN ELSE KWP_ON_CAN_FIAT
        line == CASE protocol = "DIAGONCAN" /\ bus = "DIAG" -> LINE_CAN_DIAG
                  [] protocol = "DIAGONCAN" /\ bus = "IS" -> LINE_CAN_IS
                  [] protocol = "KWPONCAN_FIAT" /\ bus = "DIAG" -> LINE_CAN_FIAT_LS6
                  [] protocol = "KWPONCAN_FIAT" /\ bus = "IS" -> LINE_CAN_FIAT_LS3
                  [] OTHER -> p.dialog_type
        target_int == IF p.target = <<>> THEN DefaultTarget ELSE HexToInt(p.target)
        kwp == ZFill2(IntToHex(target_int))
    IN  CASE protocol \in {"DIAGONCAN", "KWPONCAN_FIAT"} /\ bus \in {"DIAG", "IS"} ->
                LET lb == LineAndBind(line, can, rLine, rBind) IN
                [success |-> lb.ok, calls |-> lb.calls,
                 desc |-> ecuToEcuDescriptor(p.tx_h, p.rx_h, can, p.target),
                 proto |-> IF lb.ok THEN protocol ELSE active_protocol]
          [] protocol \in {"DIAGONCAN", "KWPONCAN_FIAT"} /\ bus \notin {"DIAG", "IS"} ->
                [success |-> FALSE, calls |-> <<>>, desc |-> currEcuDesc,
                 proto |-> active_protocol]
          [] protocol = "PSA2000" ->
                LET lb == LineAndBind(line, KWP2000_PSA, rLine, rBind)
                    desc == ecuToEcuDescriptor(<<>>, <<>>, KWP2000_PSA, kwp)
                    init == <<[fn |-> "_performInit", arg |-> desc, rc |-> rInit]>>
                IN  IF lb.ok
                    THEN [success |-> perform_init(rInit), calls |-> lb.calls \o init, desc |-> desc,
                          proto |-> IF perform_init(rInit) THEN protocol ELSE active_protocol]
                    ELSE [success |-> FALSE, calls |-> lb.calls, desc |-> desc,
                          proto |-> active_protocol]
          [] OTHER ->
                [success |-> FALSE, calls |-> <<>>, desc |-> currEcuDesc,
                 proto |-> active_protocol]

\* run(): one line read from stdin
BReadCommand ==
    /\ cmd_data = NoCommand
    /\ \E c \in BridgeCommands : cmd_data' = c
    /\ handled' = FALSE
    /\ last' = NoLast
    /\ responses' = <<>>
    /\ UNCHANGED <<vci, connected, currEcuDesc, active_protocol, boundDesc>>

\* send_response(msg_type, data) with a msg_type other than "log": one line on
\* stdout
send_response(msg_type) == responses' = Append(responses, msg_type)

Done(success, response, calls) ==
    /\ handled' = TRUE
    /\ last' = [success |-> success, response |-> response, calls |-> calls,
                preDesc |-> currEcuDesc, preProto |-> active_protocol,
                preConnected |-> connected]
    /\ UNCHANGED <<vci, cmd_data>>

\* handle_command: "connect"
BConnect ==
    /\ cmd_data.command = "connect" /\ ~handled
    /\ \E rOpen \in OpenResults :
        LET o == ConnectOutcome(rOpen) IN
        /\ connected' = (connected \/ o.success)
        /\ Done(o.success, <<>>, o.calls)
    /\ send_response("connect_response")
    /\ UNCHANGED <<currEcuDesc, active_protocol, boundDesc>>

\* handle_command: "disconnect"
BDisconnect ==
    /\ cmd_data.command = "disconnect" /\ ~handled
    /\ IF connected /\ vci
       THEN \E rClose \in StatusResults :
                /\ connected' = FALSE
                /\ Done(rClose >= 0, <<>>, <<[fn |-> "_closeSession", arg |-> <<>>, rc |-> rClose]>>)
       ELSE /\ Done(TRUE, <<>>, <<>>)
            /\ UNCHANGED connected
    /\ send_response("disconnect_response")
    /\ UNCHANGED <<currEcuDesc, active_protocol, boundDesc>>

\* handle_command: "configure"
BConfigure ==
    /\ cmd_data.command = "configure" /\ ~handled
    /\ \E rOpen \in OpenResults, rLine \in StatusResults, rBind \in StatusResults,
          rInit \in InitResults :
        LET open == IF connected THEN [success |-> TRUE, calls |-> <<>>]
                    ELSE ConnectOutcome(rOpen)
            body == ConfigureBody(cmd_data, rLine, rBind, rInit)
        IN  IF open.success
            THEN /\ connected' = TRUE
                 /\ currEcuDesc' = body.desc
                 /\ active_protocol' = body.proto
                 /\ boundDesc' = IF body.success THEN body.desc ELSE boundDesc
                 /\ Done(body.success, <<>>, open.calls \o body.calls)
            ELSE /\ Done(FALSE, <<>>, open.calls)
                 /\ UNCHANGED <<connected, currEcuDesc, active_protocol, boundDesc>>
    /\ send_response("configure_response")

\* send_receive(), after _writeAndRead returned result: the first result bytes
\* of the output buffer in hexadecimal, or the empty string
\* a send_receive that decodes the whole output buffer
send_receiveWholeBuffer(outputBuffer, result) ==
    IF result > 0 THEN BytesToHex(outputBuffer) ELSE <<>>
send_receive(outputBuffer, result) ==
    IF result > 0 THEN BytesToHex(SubSeq(outputBuffer, 1, result)) ELSE <<>>

\* handle_command: "send_receive"
BSendReceive ==
    /\ cmd_data.command = "send_receive" /\ ~handled
    /\ IF currEcuDesc = NoDesc
       THEN Done(FALSE, <<>>, <<>>)
       ELSE \E rc \in ReadResults :
                Done(rc > 0, send_receive(DriverBuffer, rc),
                     <<[fn |-> "_writeAndRead", arg |-> currEcuDesc, rc |-> rc]>>)
    /\ send_response("send_receive_response")
    /\ UNCHANGED <<connected, currEcuDesc, active_protocol, boundDesc>>

\* handle_command: "send_receive_multiple"
BSendReceiveMultiple ==
    /\ cmd_data.command = "send_receive_multiple" /\ ~handled
    /\ IF currEcuDesc = NoDesc
       THEN Done(FALSE, <<>>, <<>>)
       ELSE \E rc \in ReadResults :
                Done(rc > 0, send_receive(DriverBuffer, rc),
                     <<[fn |-> "_writeAndReadMultipleFrames", arg |-> currEcuDesc, rc |-> rc]>>)
    /\ send_response("send_receive_multiple_response")
    /\ UNCHANGED <<connected, currEcuDesc, active_protocol, boundDesc>>

\* a perform_init that closes the session when the driver fails
BPerformInitCloses ==
    /\ cmd_data.command = "perform_init" /\ ~handled
    /\ IF currEcuDesc = NoDesc
       THEN Done(FALSE, <<>>, <<>>) /\ UNCHANGED connected
       ELSE \E rInit \in InitResults :
                /\ Done(perform_init(rInit), <<>>,
                        <<[fn |-> "_performInit", arg |-> currEcuDesc, rc |-> rInit]>>)
                /\ connected' = (connected /\ perform_init(rInit))
    /\ send_response("perform_init_response")
    /\ UNCHANGED <<currEcuDesc, active_protocol, boundDesc>>
\* handle_command: "perform_init", on the stored descriptor
BPerformInit ==
    /\ cmd_data.command = "perform_init" /\ ~handled
    /\ IF currEcuDesc = NoDesc
       THEN Done(FALSE, <<>>, <<>>)
       ELSE \E rInit \in InitResults :
                Done(perform_init(rInit), <<>>,
                     <<[fn |-> "_performInit", arg |-> currEcuDesc, rc |-> rInit]>>)
    /\ send_response("perform_init_response")
    /\ UNCHANGED <<connected, currEcuDesc, active_protocol, boundDesc>>

\* handle_command: "get_analog_data"; without a loaded driver the lookup raises
\* and the voltage is None
BGetAnalogData ==
    /\ cmd_data.command = "get_analog_data" /\ ~handled
    /\ IF ~vci
       THEN Done(FALSE, <<>>, <<>>)
       ELSE \E rc \in StatusResults :
                Done(rc >= 0, <<>>, <<[fn |-> "_getAnalogicData", arg |-> <<>>, rc |-> rc]>>)
    /\ send_response("get_analog_data_response")
    /\ UNCHANGED <<connected, currEcuDesc, active_protocol, boundDesc>>

\* handle_command: "quit" closes the session and answers; run() then leaves its
\* loop
BQuit ==
    /\ cmd_data.command = "quit" /\ ~handled
    /\ IF connected /\ vci
       THEN \E rClose \in StatusResults :
                /\ connected' = FALSE
                /\ Done(TRUE, <<>>, <<[fn |-> "_closeSession", arg |-> <<>>, rc |-> rClose]>>)
       ELSE /\ Done(TRUE, <<>>, <<>>)
            /\ UNCHANGED connected
    /\ send_response("quit_response")
    /\ UNCHANGED <<currEcuDesc, active_protocol, boundDesc>>

\* a bridge that answers a command it does not know
BUnknownAnswers ==
    /\ cmd_data # NoCommand /\ cmd_data.command \notin Vocabulary /\ ~handled
    /\ Done(FALSE, <<>>, <<>>)
    /\ send_response("error_response")
    /\ UNCHANGED <<connected, currEcuDesc, active_protocol, boundDesc>>
\* handle_command: any other command is logged and not answered
BUnknown ==
    /\ cmd_data # NoCommand /\ cmd_data.command \notin Vocabulary /\ ~handled
    /\ Done(FALSE, <<>>, <<>>)
    /\ UNCHANGED <<connected, currEcuDesc, active_protocol, boundDesc, responses>>

\* handle_command returned True and run() goes back to readline
BNextLine ==
    /\ handled /\ cmd_data.command # "quit"
    /\ cmd_data' = NoCommand
    /\ handled' = FALSE
    /\ last' = NoLast
    /\ UNCHANGED responses
    /\ UNCHANGED <<vci, connected, currEcuDesc, active_protocol, boundDesc>>

(***************************************************************************)
(* VCIAdapter.configure: the caller's protocol and bus names are mapped to *)
(* the params of the configure command. Strings are kept as strings; None  *)
(* (no target given) is the empty sequence.                                *)
(***************************************************************************)
NoParams == [sent |-> FALSE]

\* protocol.lower() on the names used here
Lower(s) ==
    CASE s = "UDS" -> "uds"
      [] s = "PSA2000" -> "psa2000"
      [] s = "DIAGONCAN" -> "diagoncan"
      [] OTHER -> s

\* protocol_map
protocol_map ==
    [p \in {"uds", "kwp_is", "kwp_hab", "kwp2000", "psa2000", "fiat_kwp"} |->
        CASE p \in {"uds", "kwp_is", "kwp_hab"} -> "DIAGONCAN"
          [] p \in {"kwp2000", "psa2000"} -> "PSA2000"
          [] p = "fiat_kwp" -> "KWPONCAN_FIAT"]

\* protocol_map.get(protocol.lower(), "DIAGONCAN")
VciProtocol(protocol) ==
    IF Lower(protocol) \in DOMAIN protocol_map
    THEN protocol_map[Lower(protocol)] ELSE "DIAGONCAN"

\* the bus: "auto" is resolved from the protocol, any other name but "IS" is DIAG
VciBus(protocol, bus) ==
    IF bus = "auto"
    THEN (IF Lower(protocol) = "kwp_is" THEN "IS" ELSE "DIAG")
    ELSE (IF bus = "IS" THEN "IS" ELSE "DIAG")

\* the arguments of configure
AdapterProtocolInputs ==
    {"uds", "kwp_is", "kwp_hab", "kwp2000", "psa2000", "fiat_kwp", "UDS", "PSA2000",
     "DIAGONCAN", "bogus"}
AdapterBusInputs == {"DIAG", "IS", "auto", "is", "0", "XX"}
AdapterCalls ==
    [protocol : AdapterProtocolInputs, bus : AdapterBusInputs,
     target : TargetInputs, dialog_type : DialogInputs]

\* configure() on a connected adapter, up to _send_command("configure", params)
AConfigureParams ==
    /\ cfg_params = NoParams
    /\ cfg_params' =
        [sent |-> TRUE,
         protocol |-> VciProtocol(cfg_args.protocol),
         bus |-> VciBus(cfg_args.protocol, cfg_args.bus),
         has_target |-> cfg_args.target # <<>>,
         has_dialog_type |-> cfg_args.dialog_type # 0]
    /\ UNCHANGED cfg_args

(***************************************************************************)
(* VCIAdapter and its bridge processes: start_bridge, stop_bridge and the  *)
(* public calls that use them, made by one caller, one call at a time.     *)
(***************************************************************************)
ProcessRunning == bridge_process # 0 /\ bridge_process \in alive

\* a _send_command that looks at the handle and not at poll()
BridgeCheckHandleOnly == bridge_process # 0
\* _send_command: the command is written only when the handle is set and
\* poll() is None
BridgeCheck == ProcessRunning

\* start_bridge(): nothing to do when the process is running; otherwise Popen
\* starts a new process and the handle names it (ok), or no runtime is found
\* or Popen raises (~ok)
start_bridge(ok) ==
    IF ProcessRunning
    THEN UNCHANGED <<bridge_process, alive, started>>
    ELSE IF ok
         THEN /\ started' = started + 1
              /\ bridge_process' = started + 1
              /\ alive' = alive \cup {started + 1}
         ELSE UNCHANGED <<bridge_process, alive, started>>

\* connect(): start_bridge, then the connect command and its response
LConnect ==
    /\ lpc = "idle"
    /\ ncalls < MaxCycleCalls
    /\ ncalls' = ncalls + 1
    /\ \E ok \in BOOLEAN, success \in BOOLEAN :
        /\ start_bridge(ok)
        /\ a_connected' = (a_connected \/ ((ProcessRunning \/ ok) /\ success))
    /\ UNCHANGED <<a_configured, lpc, cpc, cop, ccmd, lastGot>>

\* configure(): connect first when not connected, then the configure command
LConfigure ==
    /\ lpc = "idle"
    /\ ncalls < MaxCycleCalls
    /\ ncalls' = ncalls + 1
    /\ \E ok \in BOOLEAN, success \in BOOLEAN, configured \in BOOLEAN :
        IF a_connected
        THEN /\ a_configured' = (a_configured \/ (BridgeCheck /\ configured))
             /\ l_op' = [op |-> "configure", ready |-> TRUE, running |-> ProcessRunning,
                         sent |-> BridgeCheck, ok |-> BridgeCheck /\ configured]
             /\ l_cfg' = IF BridgeCheck /\ configured THEN "succeeded" ELSE "failed"
             /\ UNCHANGED <<a_connected, bridge_process, alive, started>>
        ELSE /\ start_bridge(ok)
             /\ a_connected' = ((ProcessRunning \/ ok) /\ success)
             /\ a_configured' = (a_configured \/ (a_connected' /\ configured))
             /\ l_cfg' = IF a_connected' /\ configured THEN "succeeded" ELSE "failed"
             /\ UNCHANGED l_op
    /\ UNCHANGED <<lpc, cpc, cop, ccmd, lastGot>>

\* send_receive, send_receive_multiple, perform_ecu_init (they need configured)
\* and get_analog_voltage (it needs connected): the flag is checked, then
\* _send_command writes the command and waits only when the process runs
AdapterOperations ==
    {"send_receive", "send_receive_multiple", "perform_init", "get_analog_data"}

LOperation ==
    /\ lpc = "idle"
    /\ ncalls < MaxCycleCalls
    /\ ncalls' = ncalls + 1
    /\ \E op \in AdapterOperations, answered \in BOOLEAN :
        LET ready == IF op = "get_analog_data" THEN a_connected ELSE a_configured IN
        l_op' = [op |-> op, ready |-> ready, running |-> ProcessRunning,
                 sent |-> ready /\ BridgeCheck,
                 ok |-> ready /\ BridgeCheck /\ answered]
    /\ UNCHANGED <<a_connected, a_configured, cpc, cop, ccmd, lastGot, cycleVars, l_cfg>>

\* stop_bridge(), the finally block and what follows it
StopBridgeDone ==
    /\ bridge_process' = 0
    /\ a_connected' = FALSE
    /\ a_configured' = FALSE
    /\ lpc' = "idle"

\* disconnect(): the disconnect command when connected, then stop_bridge up
\* to its quit command
LDisconnect ==
    /\ lpc = "idle"
    /\ ncalls < MaxCycleCalls
    /\ ncalls' = ncalls + 1
    /\ IF ProcessRunning
       THEN /\ lpc' = "stopping"
            /\ UNCHANGED <<bridge_process, a_connected, a_configured>>
       ELSE StopBridgeDone
    /\ UNCHANGED <<alive, started, cpc, cop, ccmd, lastGot>>

\* the bridge handles quit and exits; wait(timeout=5) returns
LQuitHandled ==
    /\ lpc = "stopping"
    /\ ProcessRunning
    /\ alive' = alive \ {bridge_process}
    /\ StopBridgeDone
    /\ UNCHANGED <<started, ncalls, cpc, cop, ccmd, lastGot>>

\* the bridge does not exit within wait(timeout=5): terminate() ends it and
\* wait(timeout=2) returns; also the path on which it had exited before quit
\* could be written
LQuitTimeout ==
    /\ lpc = "stopping"
    /\ alive' = alive \ {bridge_process}
    /\ StopBridgeDone
    /\ UNCHANGED <<started, ncalls, cpc, cop, ccmd, lastGot>>

\* the bridge exits neither within wait(timeout=5) nor within wait(timeout=2)
\* after terminate(): the second wait raises TimeoutExpired inside the except
\* block, the finally block drops the handle and the exception leaves
\* stop_bridge before connected and configured are reset
LTerminateTimeout ==
    /\ lpc = "stopping"
    /\ ProcessRunning
    /\ bridge_process' = 0
    /\ lpc' = "idle"
    /\ UNCHANGED <<alive, started, adapterVars>>

\* a bridge process exits by itself: VCIBridge.run ends (stdin closed,
\* KeyboardInterrupt, an error outside handle_command), or a pending
\* terminate() takes effect late
LBridgeExits ==
    /\ \E p \in alive : alive' = alive \ {p}
    /\ UNCHANGED <<bridge_process, started, lpc, adapterVars>>

(***************************************************************************)
(* VCIBridge.send_receive, one exchange: the payload is encoded to bytes,  *)
(* the driver fills the output buffer and returns a byte count or a status *)
(* code, and the result is decoded.                                        *)
(***************************************************************************)
NoOut == [done |-> FALSE]
BufferBytes == {0, 10, 126, 255}
OutputBuffers == [1..MaxBuffer -> BufferBytes]
ExchangeResults == {-5, -1} \cup (0..MaxBuffer)
Payloads == {<<3, 14, 0, 0>>, <<1, 0, 0, 3>>}
Exchanges == [data : Payloads, outputBuffer : OutputBuffers, result : ExchangeResults]

\* bytesEncode(data, None): the payload two hex digits at a time
bytesEncode(pd) == HexPairs(pd)

\* send_receive() on a configured bridge
BExchange ==
    /\ sr_out = NoOut
    /\ sr_out' = [done |-> TRUE,
                  inBuffer |-> bytesEncode(sr_args.data),
                  response |-> send_receive(sr_args.outputBuffer, sr_args.result)]
    /\ UNCHANGED sr_args

(***************************************************************************)
(* VCIAdapter.send_receive(data, timeout) on a configured adapter whose    *)
(* process runs: the caller's timeout goes into the params of the command, *)
(* and _send_command waits with its own timeout.                           *)
(***************************************************************************)
CommandTimeout == 10     \* _send_command(command, params=None, timeout=10), seconds
PollSlice == 1           \* response_queue.get(timeout=1), seconds
CallerTimeouts == {100, 500, 1000, 1500, 3000, 5000, 15000, 20000}

\* send_receive: _send_command("send_receive", params) writes the command
WCall ==
    /\ w_pc = "idle"
    /\ w_pc' = "waiting"
    /\ UNCHANGED <<w_T, w_silent, w_elapsed, w_result>>

\* the wait loop: response_queue.get raises queue.Empty after PollSlice
WEmpty ==
    /\ w_pc = "waiting"
    /\ w_elapsed < CommandTimeout
    /\ w_silent \/ w_elapsed * 1000 < w_T
    /\ w_elapsed' = w_elapsed + PollSlice
    /\ UNCHANGED <<w_T, w_silent, w_pc, w_result>>

\* the driver gave up after the caller's timeout and the bridge answered with
\* an empty response: send_receive returns ""
WGot ==
    /\ w_pc = "waiting"
    /\ w_elapsed < CommandTimeout
    /\ ~w_silent /\ w_elapsed * 1000 >= w_T
    /\ w_pc' = "returned"
    /\ w_result' = ""
    /\ UNCHANGED <<w_T, w_silent, w_elapsed>>

\* the loop ends: "Command send_receive timed out", _send_command returns
\* None and send_receive returns ""
WTimeout ==
    /\ w_pc = "waiting"
    /\ w_elapsed >= CommandTimeout
    /\ w_pc' = "returned"
    /\ w_result' = ""
    /\ UNCHANGED <<w_T, w_silent, w_elapsed>>

(***************************************************************************)
(* The reader thread (VCIAdapter._read_bridge_output and                   *)
(* SharedVCIBridge._read_vci_bridge_output, the same code) and the loop of *)
(* _send_command / _send_vci_command that takes from the response queue.   *)
(* A line is what json.loads makes of it: not JSON, or a message with a    *)
(* command and data.                                                       *)
(***************************************************************************)
MaxLines == 3
NoLine == [json |-> FALSE, command |-> "none", data |-> 0]
StreamTags == {"log", "connect_response", "send_receive_response"}
Lines == [json : {TRUE}, command : StreamTags, data : {1, 2}] \cup {NoLine}
RECURSIVE Streams(_)
Streams(n) ==
    IF n = 0 THEN {<<>>}
    ELSE Streams(n - 1) \cup {Append(s, l) : s \in {t \in Streams(n - 1) : Len(t) = n - 1}, l \in Lines}

\* a reader that takes no line for a log line
IsLogNever(response) == FALSE
\* command == "log"
IsLog(response) == response.command = "log"

\* one pass of the reader's loop: readline, json.loads, then log or put
RReadLine ==
    /\ out_stream # <<>>
    /\ out_stream' = Tail(out_stream)
    /\ LET response == Head(out_stream) IN
       IF ~response.json
       THEN UNCHANGED <<response_queue, r_logged>>
       ELSE IF IsLog(response)
            THEN /\ r_logged' = Append(r_logged, response)
                 /\ UNCHANGED response_queue
            ELSE /\ response_queue' = Append(response_queue, response)
                 /\ UNCHANGED r_logged
    /\ UNCHANGED <<r_expected, r_pc, r_returned>>

\* _send_command: response_queue.get returned a message; it is the result when
\* its command is the expected one, and is dropped otherwise
RGet ==
    /\ r_pc = "waiting"
    /\ response_queue # <<>>
    /\ response_queue' = Tail(response_queue)
    /\ IF Head(response_queue).command = r_expected
       THEN r_pc' = "returned" /\ r_returned' = Head(response_queue)
       ELSE UNCHANGED <<r_pc, r_returned>>
    /\ UNCHANGED <<out_stream, r_logged, r_expected>>

\* _send_command: the timeout passed with the queue empty; the request returns
\* None
RTimeout ==
    /\ r_pc = "waiting"
    /\ response_queue = <<>>
    /\ r_pc' = "returned"
    /\ UNCHANGED <<out_stream, response_queue, r_logged, r_expected, r_returned>>

(***************************************************************************)
(* VCIBridge.ecuToEcuDescriptor applied to the ids of a CAN diagnostic ECU *)
(* (protocol DIAG_ON_CAN): ids of one to MaxIdDigits hexadecimal digits.   *)
(***************************************************************************)
MaxIdDigits == 4
IdDigits == {0, 5, 7}
RECURSIVE HexIds(_)
HexIds(n) ==
    IF n = 0 THEN {<<>>}
    ELSE HexIds(n - 1) \cup {Append(s, d) : s \in {t \in HexIds(n - 1) : Len(t) = n - 1}, d \in IdDigits}

DEcuDescriptor ==
    /\ d_pc = "call"
    /\ d_out' = ecuToEcuDescriptor(d_args.tx_h, d_args.rx_h, DIAG_ON_CAN, <<>>)
    /\ d_pc' = "returned"
    /\ UNCHANGED d_args

(***************************************************************************)
(* Initial states and specifications.                                      *)
(***************************************************************************)
InitProc ==
    /\ proc = "none"
    /\ stdin = <<>>
    /\ bexec = <<>>
    /\ respq = <<>>

InitBroker ==
    /\ running = TRUE
    /\ clients = <<>>
    /\ handlers = <<>>
    /\ request_queue = <<>>
    /\ current_client = None
    /\ vci_connected = FALSE
    /\ vci_lock = "free"
    /\ wpc = "idle"
    /\ wreq = NoReq
    /\ mpc = "serving"
    /\ nconn = 0
    /\ nreq = 0
    /\ execLog = <<>>
    /\ lastHanded = <<0, 0>>
    /\ lastWrite = [rid |-> 0, origin |-> 0, status |-> "none", to |-> 0]

InitAdapter ==
    /\ a_connected = FALSE
    /\ a_configured = FALSE
    /\ cpc = [c \in Callers |-> "idle"]
    /\ cop = [c \in Callers |-> "none"]
    /\ ccmd = [c \in Callers |-> NoCmd]
    /\ ncalls = 0
    /\ lastGot = [caller |-> "none", name |-> "none", id |-> 0, tag |-> "none",
                  from |-> 0, fromBy |-> "none"]

\* VCIBridge.__init__: loading the DLL may fail, which leaves self.vci None
InitBridge ==
    /\ vci \in BOOLEAN
    /\ connected = FALSE
    /\ currEcuDesc = NoDesc
    /\ active_protocol = "None"
    /\ cmd_data = NoCommand
    /\ handled = FALSE
    /\ last = NoLast
    /\ boundDesc = NoDesc
    /\ responses = <<>>

\* the reader has nothing to read and no request waits
InitReaderIdle ==
    /\ out_stream = <<>>
    /\ response_queue = <<>>
    /\ r_logged = <<>>
    /\ r_expected = "connect_response"
    /\ r_pc = "returned"
    /\ r_returned = NoLine

\* no message that is not JSON has been received
InitMsg == lastInvalid = [rid |-> 0, to |-> 0]

\* no descriptor is being built
InitDescIdle ==
    /\ d_args = [tx_h |-> <<7, 5, 2>>, rx_h |-> <<6, 5, 2>>]
    /\ d_pc = "returned"
    /\ d_out = NoDesc

\* no configure call is being mapped
InitMapIdle ==
    /\ cfg_args = [protocol |-> "uds", bus |-> "DIAG", target |-> <<>>, dialog_type |-> 0]
    /\ cfg_params = NoParams

\* a configure call with any of the arguments
InitMap ==
    /\ cfg_args \in AdapterCalls
    /\ cfg_params = NoParams

\* no operation sent yet
NoOp == [op |-> "none", ready |-> FALSE, running |-> FALSE, sent |-> FALSE, ok |-> FALSE]
InitOp == l_op = NoOp /\ l_cfg = "none"

\* VCIAdapter.__init__: no process yet
InitCycle ==
    /\ bridge_process = 0
    /\ alive = {}
    /\ started = 0
    /\ lpc = "idle"

\* no exchange under way
InitExchangeIdle ==
    /\ sr_args = [data |-> <<3, 14, 0, 0>>, outputBuffer |-> [i \in 1..MaxBuffer |-> 0],
                  result |-> 0]
    /\ sr_out = NoOut

\* an exchange with any payload and any behaviour of the driver
InitExchange ==
    /\ sr_args \in Exchanges
    /\ sr_out = NoOut

\* no send_receive call under way
InitWaitIdle ==
    /\ w_T = 1500
    /\ w_silent = FALSE
    /\ w_pc = "idle"
    /\ w_elapsed = 0
    /\ w_result = "none"

\* a send_receive call with any of the timeouts, to a bridge that answers or not
InitWait ==
    /\ w_T \in CallerTimeouts
    /\ w_silent \in BOOLEAN
    /\ w_pc = "idle"
    /\ w_elapsed = 0
    /\ w_result = "none"

Init ==
    /\ InitBroker /\ InitProc /\ InitAdapter /\ InitBridge /\ InitMapIdle /\ InitCycle
    /\ InitExchangeIdle /\ InitWaitIdle /\ InitOp /\ InitReaderIdle /\ InitDescIdle /\ InitMsg

\* the broker and the adapter talk to a bridge whose driver DLL loaded
InitDriverLoaded == Init /\ vci

\* the broker (SharedVCIBridge) with its bridge subprocess
NextBroker ==
    \/ Accept /\ UNCHANGED <<adapterVars, bridgeVars, mapVars, cycleVars, exchangeVars, waitVars, opVars, readerVars, descVars, msgVars>>
    \/ (\E s \in 1..(MaxConns + 1) : HandlerRecv(s)) /\ UNCHANGED <<adapterVars, bridgeVars, mapVars, cycleVars, exchangeVars, waitVars, opVars, readerVars, descVars, msgVars>>
    \/ (\E s \in 1..(MaxConns + 1) : HandlerClose(s)) /\ UNCHANGED <<adapterVars, bridgeVars, mapVars, cycleVars, exchangeVars, waitVars, opVars, readerVars, descVars, msgVars>>
    \/ WorkerConnect /\ UNCHANGED <<adapterVars, bridgeVars, mapVars, cycleVars, exchangeVars, waitVars, opVars, readerVars, descVars, msgVars>>
    \/ WorkerDisconnect /\ UNCHANGED <<adapterVars, bridgeVars, mapVars, cycleVars, exchangeVars, waitVars, opVars, readerVars, descVars, msgVars>>
    \/ WorkerBridgeRequest /\ UNCHANGED <<adapterVars, bridgeVars, mapVars, cycleVars, exchangeVars, waitVars, opVars, readerVars, descVars, msgVars>>
    \/ WorkerGetStatus /\ UNCHANGED <<adapterVars, bridgeVars, mapVars, cycleVars, exchangeVars, waitVars, opVars, readerVars, descVars, msgVars>>
    \/ WorkerUnknown /\ UNCHANGED <<adapterVars, bridgeVars, mapVars, cycleVars, exchangeVars, waitVars, opVars, readerVars, descVars, msgVars>>
    \/ WorkerPoll /\ UNCHANGED <<adapterVars, bridgeVars, mapVars, cycleVars, exchangeVars, waitVars, opVars, readerVars, descVars, msgVars>>
    \/ WorkerTimeout /\ UNCHANGED <<adapterVars, bridgeVars, mapVars, cycleVars, exchangeVars, waitVars, opVars, readerVars, descVars, msgVars>>
    \/ WorkerExit /\ UNCHANGED <<adapterVars, bridgeVars, mapVars, cycleVars, exchangeVars, waitVars, opVars, readerVars, descVars, msgVars>>
    \/ StopServer /\ UNCHANGED <<adapterVars, bridgeVars, mapVars, cycleVars, exchangeVars, waitVars, opVars, readerVars, descVars, msgVars>>
    \/ MainPoll /\ UNCHANGED <<adapterVars, bridgeVars, mapVars, cycleVars, exchangeVars, waitVars, opVars, readerVars, descVars, msgVars>>
    \/ MainTimeout /\ UNCHANGED <<adapterVars, bridgeVars, mapVars, cycleVars, exchangeVars, waitVars, opVars, readerVars, descVars, msgVars>>
    \/ BridgeRead /\ UNCHANGED <<brokerVars, adapterVars, bridgeVars, mapVars, cycleVars, exchangeVars, waitVars, opVars, readerVars, descVars, msgVars>>
    \/ BridgeRespond /\ UNCHANGED <<brokerVars, adapterVars, bridgeVars, mapVars, cycleVars, exchangeVars, waitVars, opVars, readerVars, descVars, msgVars>>

SpecBroker == InitDriverLoaded /\ [][NextBroker]_vars

\* the broker in a run with one more connection
NextBrokerSessions ==
    \/ AcceptSession /\ UNCHANGED <<adapterVars, bridgeVars, mapVars, cycleVars, exchangeVars, waitVars, opVars, readerVars, descVars, msgVars>>
    \/ (\E s \in 1..(MaxConns + 1) : HandlerRecv(s)) /\ UNCHANGED <<adapterVars, bridgeVars, mapVars, cycleVars, exchangeVars, waitVars, opVars, readerVars, descVars, msgVars>>
    \/ (\E s \in 1..(MaxConns + 1) : HandlerClose(s)) /\ UNCHANGED <<adapterVars, bridgeVars, mapVars, cycleVars, exchangeVars, waitVars, opVars, readerVars, descVars, msgVars>>
    \/ WorkerConnect /\ UNCHANGED <<adapterVars, bridgeVars, mapVars, cycleVars, exchangeVars, waitVars, opVars, readerVars, descVars, msgVars>>
    \/ WorkerDisconnect /\ UNCHANGED <<adapterVars, bridgeVars, mapVars, cycleVars, exchangeVars, waitVars, opVars, readerVars, descVars, msgVars>>
    \/ WorkerBridgeRequest /\ UNCHANGED <<adapterVars, bridgeVars, mapVars, cycleVars, exchangeVars, waitVars, opVars, readerVars, descVars, msgVars>>
    \/ WorkerGetStatus /\ UNCHANGED <<adapterVars, bridgeVars, mapVars, cycleVars, exchangeVars, waitVars, opVars, readerVars, descVars, msgVars>>
    \/ WorkerUnknown /\ UNCHANGED <<adapterVars, bridgeVars, mapVars, cycleVars, exchangeVars, waitVars, opVars, readerVars, descVars, msgVars>>
    \/ WorkerPoll /\ UNCHANGED <<adapterVars, bridgeVars, mapVars, cycleVars, exchangeVars, waitVars, opVars, readerVars, descVars, msgVars>>
    \/ WorkerTimeout /\ UNCHANGED <<adapterVars, bridgeVars, mapVars, cycleVars, exchangeVars, waitVars, opVars, readerVars, descVars, msgVars>>
    \/ WorkerExit /\ UNCHANGED <<adapterVars, bridgeVars, mapVars, cycleVars, exchangeVars, waitVars, opVars, readerVars, descVars, msgVars>>
    \/ StopServer /\ UNCHANGED <<adapterVars, bridgeVars, mapVars, cycleVars, exchangeVars, waitVars, opVars, readerVars, descVars, msgVars>>
    \/ MainPoll /\ UNCHANGED <<adapterVars, bridgeVars, mapVars, cycleVars, exchangeVars, waitVars, opVars, readerVars, descVars, msgVars>>
    \/ MainTimeout /\ UNCHANGED <<adapterVars, bridgeVars, mapVars, cycleVars, exchangeVars, waitVars, opVars, readerVars, descVars, msgVars>>
    \/ BridgeRead /\ UNCHANGED <<brokerVars, adapterVars, bridgeVars, mapVars, cycleVars, exchangeVars, waitVars, opVars, readerVars, descVars, msgVars>>
    \/ BridgeRespond /\ UNCHANGED <<brokerVars, adapterVars, bridgeVars, mapVars, cycleVars, exchangeVars, waitVars, opVars, readerVars, descVars, msgVars>>

SpecBrokerSessions == InitDriverLoaded /\ [][NextBrokerSessions]_vars

\* the broker with clients that also send messages that are not JSON
NextBrokerMessages ==
    \/ Accept /\ UNCHANGED <<adapterVars, bridgeVars, mapVars, cycleVars, exchangeVars, waitVars, opVars, readerVars, descVars, msgVars>>
    \/ (\E s \in 1..(MaxConns + 1) : HandlerRecv(s)) /\ UNCHANGED <<adapterVars, bridgeVars, mapVars, cycleVars, exchangeVars, waitVars, opVars, readerVars, descVars, msgVars>>
    \/ (\E s \in 1..(MaxConns + 1) : HandlerClose(s)) /\ UNCHANGED <<adapterVars, bridgeVars, mapVars, cycleVars, exchangeVars, waitVars, opVars, readerVars, descVars, msgVars>>
    \/ WorkerConnect /\ UNCHANGED <<adapterVars, bridgeVars, mapVars, cycleVars, exchangeVars, waitVars, opVars, readerVars, descVars, msgVars>>
    \/ WorkerDisconnect /\ UNCHANGED <<adapterVars, bridgeVars, mapVars, cycleVars, exchangeVars, waitVars, opVars, readerVars, descVars, msgVars>>
    \/ WorkerBridgeRequest /\ UNCHANGED <<adapterVars, bridgeVars, mapVars, cycleVars, exchangeVars, waitVars, opVars, readerVars, descVars, msgVars>>
    \/ WorkerGetStatus /\ UNCHANGED <<adapterVars, bridgeVars, mapVars, cycleVars, exchangeVars, waitVars, opVars, readerVars, descVars, msgVars>>
    \/ WorkerUnknown /\ UNCHANGED <<adapterVars, bridgeVars, mapVars, cycleVars, exchangeVars, waitVars, opVars, readerVars, descVars, msgVars>>
    \/ WorkerPoll /\ UNCHANGED <<adapterVars, bridgeVars, mapVars, cycleVars, exchangeVars, waitVars, opVars, readerVars, descVars, msgVars>>
    \/ WorkerTimeout /\ UNCHANGED <<adapterVars, bridgeVars, mapVars, cycleVars, exchangeVars, waitVars, opVars, readerVars, descVars, msgVars>>
    \/ WorkerExit /\ UNCHANGED <<adapterVars, bridgeVars, mapVars, cycleVars, exchangeVars, waitVars, opVars, readerVars, descVars, msgVars>>
    \/ StopServer /\ UNCHANGED <<adapterVars, bridgeVars, mapVars, cycleVars, exchangeVars, waitVars, opVars, readerVars, descVars, msgVars>>
    \/ MainPoll /\ UNCHANGED <<adapterVars, bridgeVars, mapVars, cycleVars, exchangeVars, waitVars, opVars, readerVars, descVars, msgVars>>
    \/ MainTimeout /\ UNCHANGED <<adapterVars, bridgeVars, mapVars, cycleVars, exchangeVars, waitVars, opVars, readerVars, descVars, msgVars>>
    \/ BridgeRead /\ UNCHANGED <<brokerVars, adapterVars, bridgeVars, mapVars, cycleVars, exchangeVars, waitVars, opVars, readerVars, descVars, msgVars>>
    \/ BridgeRespond /\ UNCHANGED <<brokerVars, adapterVars, bridgeVars, mapVars, cycleVars, exchangeVars, waitVars, opVars, readerVars, descVars, msgVars>>
    \/ (\E s \in 1..(MaxConns + 1) : HandlerRecvInvalid(s)) /\ UNCHANGED <<adapterVars, bridgeVars, mapVars, cycleVars, exchangeVars, waitVars, opVars, readerVars, descVars>>

SpecBrokerMessages == InitDriverLoaded /\ [][NextBrokerMessages]_vars

\* one VCIAdapter used by the threads of Callers, with its bridge subprocess
NextAdapter ==
    \/ (\E c \in Callers : ACallConnect(c)) /\ UNCHANGED <<brokerVars, bridgeVars, mapVars, cycleVars, exchangeVars, waitVars, opVars, readerVars, descVars, msgVars>>
    \/ (\E c \in Callers : ACallConfigure(c)) /\ UNCHANGED <<brokerVars, bridgeVars, mapVars, cycleVars, exchangeVars, waitVars, opVars, readerVars, descVars, msgVars>>
    \/ (\E c \in Callers : ACallSendReceive(c)) /\ UNCHANGED <<brokerVars, bridgeVars, mapVars, cycleVars, exchangeVars, waitVars, opVars, readerVars, descVars, msgVars>>
    \/ (\E c \in Callers : APoll(c)) /\ UNCHANGED <<brokerVars, bridgeVars, mapVars, cycleVars, exchangeVars, waitVars, opVars, readerVars, descVars, msgVars>>
    \/ (\E c \in Callers : ATimeout(c)) /\ UNCHANGED <<brokerVars, bridgeVars, mapVars, cycleVars, exchangeVars, waitVars, opVars, readerVars, descVars, msgVars>>
    \/ BridgeRead /\ UNCHANGED <<brokerVars, adapterVars, bridgeVars, mapVars, cycleVars, exchangeVars, waitVars, opVars, readerVars, descVars, msgVars>>
    \/ BridgeRespond /\ UNCHANGED <<brokerVars, adapterVars, bridgeVars, mapVars, cycleVars, exchangeVars, waitVars, opVars, readerVars, descVars, msgVars>>

SpecAdapter == InitDriverLoaded /\ [][NextAdapter]_vars

\* the bridge process (VCIBridge) handling commands against the native driver
NextBridge ==
    \/ BReadCommand /\ UNCHANGED <<brokerVars, procVars, adapterVars, mapVars, cycleVars, exchangeVars, waitVars, opVars, readerVars, descVars, msgVars>>
    \/ BConnect /\ UNCHANGED <<brokerVars, procVars, adapterVars, mapVars, cycleVars, exchangeVars, waitVars, opVars, readerVars, descVars, msgVars>>
    \/ BDisconnect /\ UNCHANGED <<brokerVars, procVars, adapterVars, mapVars, cycleVars, exchangeVars, waitVars, opVars, readerVars, descVars, msgVars>>
    \/ BConfigure /\ UNCHANGED <<brokerVars, procVars, adapterVars, mapVars, cycleVars, exchangeVars, waitVars, opVars, readerVars, descVars, msgVars>>
    \/ BSendReceive /\ UNCHANGED <<brokerVars, procVars, adapterVars, mapVars, cycleVars, exchangeVars, waitVars, opVars, readerVars, descVars, msgVars>>
    \/ BSendReceiveMultiple /\ UNCHANGED <<brokerVars, procVars, adapterVars, mapVars, cycleVars, exchangeVars, waitVars, opVars, readerVars, descVars, msgVars>>
    \/ BPerformInit /\ UNCHANGED <<brokerVars, procVars, adapterVars, mapVars, cycleVars, exchangeVars, waitVars, opVars, readerVars, descVars, msgVars>>
    \/ BGetAnalogData /\ UNCHANGED <<brokerVars, procVars, adapterVars, mapVars, cycleVars, exchangeVars, waitVars, opVars, readerVars, descVars, msgVars>>
    \/ BQuit /\ UNCHANGED <<brokerVars, procVars, adapterVars, mapVars, cycleVars, exchangeVars, waitVars, opVars, readerVars, descVars, msgVars>>
    \/ BUnknown /\ UNCHANGED <<brokerVars, procVars, adapterVars, mapVars, cycleVars, exchangeVars, waitVars, opVars, readerVars, descVars, msgVars>>
    \/ BNextLine /\ UNCHANGED <<brokerVars, procVars, adapterVars, mapVars, cycleVars, exchangeVars, waitVars, opVars, readerVars, descVars, msgVars>>

SpecBridge == Init /\ [][NextBridge]_vars

\* VCIAdapter.configure's mapping of its arguments
InitConfigureMap ==
    /\ InitBroker /\ InitProc /\ InitAdapter /\ InitBridge /\ vci /\ InitMap /\ InitCycle
    /\ InitExchangeIdle /\ InitWaitIdle /\ InitOp /\ InitReaderIdle /\ InitDescIdle /\ InitMsg

NextConfigureMap ==
    \/ AConfigureParams /\ UNCHANGED <<brokerVars, procVars, adapterVars, bridgeVars, cycleVars, exchangeVars, waitVars, opVars, readerVars, descVars, msgVars>>

SpecConfigureMap == InitConfigureMap /\ [][NextConfigureMap]_vars

\* one caller going through connect / configure / disconnect cycles on a VCIAdapter
NextAdapterCycle ==
    \/ LConnect /\ UNCHANGED <<brokerVars, procVars, bridgeVars, mapVars, exchangeVars, waitVars, opVars, readerVars, descVars, msgVars>>
    \/ LConfigure /\ UNCHANGED <<brokerVars, procVars, bridgeVars, mapVars, exchangeVars, waitVars, readerVars, descVars, msgVars>>
    \/ LDisconnect /\ UNCHANGED <<brokerVars, procVars, bridgeVars, mapVars, exchangeVars, waitVars, opVars, readerVars, descVars, msgVars>>
    \/ LQuitHandled /\ UNCHANGED <<brokerVars, procVars, bridgeVars, mapVars, exchangeVars, waitVars, opVars, readerVars, descVars, msgVars>>
    \/ LQuitTimeout /\ UNCHANGED <<brokerVars, procVars, bridgeVars, mapVars, exchangeVars, waitVars, opVars, readerVars, descVars, msgVars>>
    \/ LTerminateTimeout /\ UNCHANGED <<brokerVars, procVars, bridgeVars, mapVars, exchangeVars, waitVars, opVars, readerVars, descVars, msgVars>>
    \/ LBridgeExits /\ UNCHANGED <<brokerVars, procVars, bridgeVars, mapVars, exchangeVars, waitVars, opVars, readerVars, descVars, msgVars>>
    \/ LOperation /\ UNCHANGED <<brokerVars, procVars, bridgeVars, mapVars, exchangeVars, waitVars, readerVars, descVars, msgVars>>

SpecAdapterCycle == InitDriverLoaded /\ [][NextAdapterCycle]_vars

\* VCIBridge.send_receive's encoding and decoding
InitSendReceive ==
    /\ InitBroker /\ InitProc /\ InitAdapter /\ InitBridge /\ vci /\ InitMapIdle /\ InitCycle
    /\ InitExchange /\ InitWaitIdle /\ InitOp /\ InitReaderIdle /\ InitDescIdle /\ InitMsg

NextSendReceive ==
    \/ BExchange /\ UNCHANGED <<brokerVars, procVars, adapterVars, bridgeVars, mapVars, cycleVars, waitVars, opVars, readerVars, descVars, msgVars>>

SpecSendReceive == InitSendReceive /\ [][NextSendReceive]_vars

\* VCIAdapter.send_receive waiting for the response
InitSendReceiveWait ==
    /\ InitBroker /\ InitProc /\ InitAdapter /\ InitBridge /\ vci /\ InitMapIdle /\ InitCycle
    /\ InitExchangeIdle /\ InitWait /\ InitOp /\ InitReaderIdle /\ InitDescIdle /\ InitMsg

NextSendReceiveWait ==
    \/ WCall /\ UNCHANGED <<brokerVars, procVars, adapterVars, bridgeVars, mapVars, cycleVars, exchangeVars, opVars, readerVars, descVars, msgVars>>
    \/ WEmpty /\ UNCHANGED <<brokerVars, procVars, adapterVars, bridgeVars, mapVars, cycleVars, exchangeVars, opVars, readerVars, descVars, msgVars>>
    \/ WGot /\ UNCHANGED <<brokerVars, procVars, adapterVars, bridgeVars, mapVars, cycleVars, exchangeVars, opVars, readerVars, descVars, msgVars>>
    \/ WTimeout /\ UNCHANGED <<brokerVars, procVars, adapterVars, bridgeVars, mapVars, cycleVars, exchangeVars, opVars, readerVars, descVars, msgVars>>

SpecSendReceiveWait == InitSendReceiveWait /\ [][NextSendReceiveWait]_vars

\* the reader thread with any output of the bridge before it, and one request
\* that waits for its response
InitReader ==
    /\ InitBroker /\ InitProc /\ InitAdapter /\ InitBridge /\ vci /\ InitMapIdle /\ InitCycle
    /\ InitExchangeIdle /\ InitWaitIdle /\ InitOp /\ InitDescIdle /\ InitMsg
    /\ out_stream \in Streams(MaxLines)
    /\ response_queue = <<>>
    /\ r_logged = <<>>
    /\ r_expected \in StreamTags \ {"log"}
    /\ r_pc = "waiting"
    /\ r_returned = NoLine

NextReader ==
    \/ RReadLine /\ UNCHANGED <<brokerVars, procVars, adapterVars, bridgeVars, mapVars, cycleVars, exchangeVars, waitVars, opVars, descVars, msgVars>>
    \/ RGet /\ UNCHANGED <<brokerVars, procVars, adapterVars, bridgeVars, mapVars, cycleVars, exchangeVars, waitVars, opVars, descVars, msgVars>>
    \/ RTimeout /\ UNCHANGED <<brokerVars, procVars, adapterVars, bridgeVars, mapVars, cycleVars, exchangeVars, waitVars, opVars, descVars, msgVars>>

SpecReader == InitReader /\ [][NextReader]_vars

\* ecuToEcuDescriptor for every pair of ids of one to MaxIdDigits digits
InitEcuDescriptor ==
    /\ InitBroker /\ InitProc /\ InitAdapter /\ InitBridge /\ vci /\ InitMapIdle /\ InitCycle
    /\ InitExchangeIdle /\ InitWaitIdle /\ InitOp /\ InitReaderIdle /\ InitMsg
    /\ d_args \in [tx_h : HexIds(MaxIdDigits) \ {<<>>}, rx_h : HexIds(MaxIdDigits) \ {<<>>}]
    /\ d_pc = "call"
    /\ d_out = NoDesc

NextEcuDescriptor ==
    \/ DEcuDescriptor /\ UNCHANGED <<brokerVars, procVars, adapterVars, bridgeVars, mapVars, cycleVars, exchangeVars, waitVars, opVars, readerVars, msgVars>>

SpecEcuDescriptor == InitEcuDescriptor /\ [][NextEcuDescriptor]_vars

(***************************************************************************)
(* Properties of the broker and its bridge subprocess.                     *)
(***************************************************************************)
WorkerCommands(q) == {i \in DOMAIN q : q[i].by = "worker"}
Outstanding(name) ==
    Cardinality({i \in DOMAIN stdin : stdin[i].name = name})
    + Cardinality({i \in DOMAIN bexec : bexec[i].name = name})

\* C1: mutual exclusion on the hardware. The bridge process never has two
\* commands in progress on the native driver: a command starts only after the
\* previous one has returned, whatever the broker's threads have written.
C1_DriverMutualExclusion == Len(bexec) <= 1

\* C1 witness: one command is in progress on the driver while a second command
\* written by the worker (after a timeout) already waits in the pipe.
C1_Witness ==
    /\ Len(bexec) = 1
    /\ bexec[1].by = "worker"
    /\ WorkerCommands(stdin) # {}

\* C2: every command written to the bridge process, the quit of stop_server
\* included, is written by the worker thread while it holds vci_lock, and no
\* two broker threads are inside a bridge command at the same time.
C2_OnlyWorkerUnderLock ==
    /\ \A i \in DOMAIN stdin : stdin[i].by = "worker"
    /\ \A i \in DOMAIN bexec : bexec[i].by = "worker"
    /\ wpc = "waiting" => vci_lock = "worker"
    /\ ~(wpc = "waiting" /\ mpc = "quit_wait")

\* C2 witness: stop_server has written quit from the main thread, without
\* vci_lock, while the worker holds the lock and waits for its own response.
C2_Witness ==
    /\ wpc = "waiting"
    /\ vci_lock = "worker"
    /\ mpc = "quit_wait"
    /\ \E i \in DOMAIN stdin : stdin[i].name = "quit" /\ stdin[i].by = "main"

\* C3: the response to a request received on connection c is written to c's
\* socket and to no other connection's socket.
C3_ResponseToOrigin ==
    lastWrite.rid # 0 => lastWrite.to \in {0, lastWrite.origin}

\* C3 witness: the response to a request was written to the socket of another
\* connection than the one the request came in on.
C3_Witness ==
    /\ lastWrite.rid # 0
    /\ lastWrite.to # 0
    /\ lastWrite.to # lastWrite.origin

\* C4: the data returned for a request is the bridge's response to the command
\* issued for that same request, never the response to an earlier command of
\* the same name.
C4_ResponseCorrelated == lastHanded[1] = lastHanded[2]

\* C4 witness: the second request was handed the bridge's response to the
\* command of the first request, whose wait had timed out.
C4_Witness == lastHanded = <<2, 1>>

\* C5: at most one command of a given name is written to the bridge process
\* and not yet answered by it.
C5_OneOutstandingPerName ==
    \A name \in {"connect", "configure", "send_receive", "quit"} : Outstanding(name) <= 1

\* C5 witness: two connect commands written by the worker are unanswered.
C5_Witness ==
    Cardinality({i \in WorkerCommands(stdin) : stdin[i].name = "connect"})
    + Cardinality({i \in WorkerCommands(bexec) : bexec[i].name = "connect"}) = 2

\* C7: FIFO execution. The worker dispatches the requests in exactly the order
\* in which they were put on the shared queue (a request's rid is its rank in
\* that order), and the commands it writes reach the bridge in that order.
C7_FifoExecution ==
    /\ \A i \in DOMAIN execLog : execLog[i] = i
    /\ \A i, j \in WorkerCommands(stdin) : i < j => stdin[i].id < stdin[j].id
    /\ \A i \in WorkerCommands(bexec) : \A j \in WorkerCommands(stdin) : bexec[i].id < stdin[j].id

\* C7 witness: the first request has been answered and the worker executes the
\* second one, which came from another connection and was queued behind it.
C7_Witness ==
    /\ execLog = <<1, 2>>
    /\ lastWrite.rid = 1
    /\ wreq.rid = 2
    /\ wreq.sock # lastWrite.origin

(***************************************************************************)
(* Properties of VCIAdapter used without the broker.                       *)
(***************************************************************************)
\* C6: hazard reachability. With two callers on one VCIAdapter, a caller can be
\* handed the response the bridge produced for the other caller's request
\* (C6_Witness is such a state); responses are told apart by their tag alone,
\* so whatever a caller is handed carries the tag of the command it sent, and
\* only a command of the same name can be answered to the wrong caller.
C6_CorrelatedByTagOnly ==
    lastGot.id # 0 => lastGot.tag = ResponseTag(lastGot.name)

\* C6 witness: a caller waiting in send_receive was handed the response produced
\* for the send_receive of the other caller, while that caller still waits.
C6_Witness ==
    /\ lastGot.name = "send_receive"
    /\ lastGot.fromBy \in Callers \ {lastGot.caller}
    /\ lastGot.from # lastGot.id
    /\ cpc[lastGot.fromBy] = "waiting"
    /\ ccmd[lastGot.fromBy] = [name |-> "send_receive", id |-> lastGot.from]

(***************************************************************************)
(* Properties of VCIBridge.configure.                                      *)
(***************************************************************************)
ConfigureHandled == handled /\ cmd_data.command = "configure"
ResolvedBus(p) == LegacyBus(p.bus)
ResolvedProtocol(p) == LegacyProtocol(p.bus, p.protocol)
CanProtocols == {"DIAGONCAN", "KWPONCAN_FIAT"}

\* a driver call of the log reported failure
CallFailed(call) ==
    IF call.fn = "_openSession" THEN call.rc \notin {0, 1} ELSE call.rc < 0

\* the binding named by the call (after the legacy bus codes) is not in the table
UnsupportedBinding(p) ==
    \/ ResolvedProtocol(p) \notin CanProtocols \cup {"PSA2000"}
    \/ ResolvedProtocol(p) \in CanProtocols /\ ResolvedBus(p) \notin {"DIAG", "IS"}

\* the call lacks a parameter its protocol requires
MissingParameter(p) ==
    /\ ~UnsupportedBinding(p)
    /\ \/ ResolvedProtocol(p) \in CanProtocols /\ (p.tx_h = <<>> \/ p.rx_h = <<>>)
       \/ ResolvedProtocol(p) = "KWPONCAN_FIAT" /\ p.target = <<>>

\* C8: no partial configuration. When a sub-step of configure fails (a driver
\* call reports failure, or no descriptor can be built), configure reports
\* failure, and after a failed configure the active EcuDescriptor and protocol
\* are those in force before the call.
C8_NoPartialConfiguration ==
    ConfigureHandled =>
        /\ ((\E i \in DOMAIN last.calls : CallFailed(last.calls[i])) \/ MissingParameter(cmd_data))
               => ~last.success
        /\ ~last.success => (currEcuDesc = last.preDesc /\ active_protocol = last.preProto)

\* C8 witness: a configure failed at a driver call and left another descriptor
\* in force than the one of the configuration that preceded it.
C8_Witness ==
    /\ ConfigureHandled
    /\ ~last.success
    /\ \E i \in DOMAIN last.calls : CallFailed(last.calls[i])
    /\ last.preDesc # NoDesc
    /\ currEcuDesc \notin {NoDesc, last.preDesc}

\* C9: a configure naming an unsupported protocol, or an unsupported bus for its
\* protocol, is rejected with failure before any native driver call is made, in
\* every state of the bridge.
C9_UnsupportedRejectedBeforeDriver ==
    (ConfigureHandled /\ UnsupportedBinding(cmd_data)) =>
        (~last.success /\ last.calls = <<>>)

\* C9 witness: a configure with an unsupported binding, handled while no
\* session was open, opened the session on the driver before it was rejected.
C9_Witness ==
    /\ ConfigureHandled
    /\ UnsupportedBinding(cmd_data)
    /\ ~last.preConnected
    /\ ~last.success
    /\ last.calls # <<>>
    /\ last.calls[1].fn = "_openSession"
    /\ connected

\* C10: a configure lacking a required parameter is rejected with failure before
\* any native driver call, and configure never reports success while the bridge
\* holds no EcuDescriptor.
C10_MissingParameterRejected ==
    ConfigureHandled =>
        /\ MissingParameter(cmd_data) => (~last.success /\ last.calls = <<>>)
        /\ last.success => currEcuDesc # NoDesc

\* C10 witness: a configure lacking a required parameter went through the line
\* and bind calls and reported success while the bridge holds no descriptor.
C10_Witness ==
    /\ ConfigureHandled
    /\ MissingParameter(cmd_data)
    /\ last.success
    /\ last.calls # <<>>
    /\ currEcuDesc = NoDesc

(***************************************************************************)
(* Properties of VCIAdapter.configure's argument mapping.                  *)
(***************************************************************************)
SupportedProtocolNames == DOMAIN protocol_map
SupportedBusNames == {"DIAG", "IS", "auto"}

\* C11: no silent fallback. The protocol and bus that reach the bridge are the
\* ones the caller named, and a configure naming a protocol or bus outside the
\* supported set sends no command with a default put in its place.
C11_NoSilentFallback ==
    cfg_params.sent =>
        /\ Lower(cfg_args.protocol) \in SupportedProtocolNames
        /\ cfg_args.bus \in SupportedBusNames
        /\ cfg_params.protocol = protocol_map[Lower(cfg_args.protocol)]
        /\ cfg_args.bus \in {"DIAG", "IS"} => cfg_params.bus = cfg_args.bus

\* C11 witness: a configure naming an unknown protocol and an unknown bus was
\* sent to the bridge as DIAGONCAN on DIAG.
C11_Witness ==
    /\ cfg_args.protocol = "bogus"
    /\ cfg_args.bus = "XX"
    /\ cfg_params.sent
    /\ cfg_params.protocol = "DIAGONCAN"
    /\ cfg_params.bus = "DIAG"

(***************************************************************************)
(* Properties of the broker's request handling.                            *)
(***************************************************************************)
\* a step that puts a command on the pipe of the bridge process
PipeWrite ==
    /\ Len(stdin') > 0
    /\ \/ Len(stdin') > Len(stdin)
       \/ proc # "running" /\ proc' = "running"
WrittenCommand == stdin'[Len(stdin')]

\* C12: no automatic retry. The worker writes a command to the bridge process
\* only in the step that dispatches a request, and the command is the one of
\* that request: a request causes at most one command, whatever its outcome.
C12_NoAutomaticRetry ==
    [][(PipeWrite /\ WrittenCommand.by = "worker") =>
          /\ execLog' = Append(execLog, WrittenCommand.id)
          /\ wreq'.rid = WrittenCommand.id
          /\ WrittenCommand.name = BridgeCommandOf(wreq'.command)]_vars

\* C12 witness: a send_request was answered with an error after its wait timed
\* out; its one send_receive command is still with the bridge, unanswered, and
\* nothing else was written for it.
C12_Witness ==
    /\ lastWrite.rid # 0
    /\ lastWrite.status = "error"
    /\ wpc = "idle"
    /\ stdin = <<>>
    /\ Len(bexec) = 1
    /\ bexec[1] = [name |-> "send_receive", id |-> lastWrite.rid, by |-> "worker"]

\* with C12, in the bridge process: handling one send_receive command makes at
\* most one _writeAndRead call on the driver
SendReceiveOneDriverCall ==
    (handled /\ cmd_data.command = "send_receive") =>
        /\ Len(last.calls) <= 1
        /\ \A i \in DOMAIN last.calls : last.calls[i].fn = "_writeAndRead"

(***************************************************************************)
(* Properties of the protocol bindings of VCIBridge.configure.             *)
(***************************************************************************)
\* the driver calls of configure proper, after those of the connect it may
\* have made first
ConnectCalls == IF last.preConnected \/ last.calls = <<>> THEN 0
                ELSE IF last.calls[1].rc \in {0, 1} THEN 3 ELSE 1
ConfigureCalls == SubSeq(last.calls, ConnectCalls + 1, Len(last.calls))
CallShape(call) == [fn |-> call.fn, arg |-> call.arg]

\* the documented table: communication line and protocol-descriptor bytes
DocumentedLine(bus, protocol) ==
    CASE bus = "DIAG" /\ protocol = "DIAGONCAN" -> 17
      [] bus = "IS" /\ protocol = "DIAGONCAN" -> 18
      [] bus = "DIAG" /\ protocol = "KWPONCAN_FIAT" -> 47
      [] bus = "IS" /\ protocol = "KWPONCAN_FIAT" -> 48
DocumentedBytes(protocol) ==
    IF protocol = "DIAGONCAN" THEN <<3, 16, 232>> ELSE <<7>>

\* C13: for every supported (bus, protocol) pair of the CAN protocols, a
\* successful configure selects exactly the documented line and binds exactly
\* the documented descriptor bytes, the line first.
C13_DocumentedLineAndBytes ==
    (ConfigureHandled /\ last.success /\ ResolvedProtocol(cmd_data) \in CanProtocols) =>
        /\ Len(ConfigureCalls) = 2
        /\ CallShape(ConfigureCalls[1]) =
              [fn |-> "_changeComLine",
               arg |-> <<DocumentedLine(ResolvedBus(cmd_data), ResolvedProtocol(cmd_data))>>]
        /\ CallShape(ConfigureCalls[2]) =
              [fn |-> "_bindProtocol",
               arg |-> DocumentedBytes(ResolvedProtocol(cmd_data))]

\* C13 witness: a successful configure of (IS, KWPONCAN_FIAT), named as such on
\* a bridge with no session yet, selected line 48 and then bound 07.
C13_Witness ==
    /\ ConfigureHandled
    /\ last.success
    /\ ~last.preConnected
    /\ cmd_data.bus = "IS"
    /\ cmd_data.protocol = "KWPONCAN_FIAT"
    /\ Len(last.calls) = 5
    /\ last.calls[4].fn = "_changeComLine" /\ last.calls[4].arg = <<48>>
    /\ last.calls[5].fn = "_bindProtocol" /\ last.calls[5].arg = <<7>>

\* the documented meaning of the legacy numeric bus codes
LegacyCodes == {"0", "1", "2", "3", "4"}
DocumentedPair(code) ==
    CASE code = "0" -> [bus |-> "IS", protocol |-> "DIAGONCAN"]
      [] code = "1" -> [bus |-> "DIAG", protocol |-> "DIAGONCAN"]
      [] code = "2" -> [bus |-> "DIAG", protocol |-> "KWPONCAN_FIAT"]
      [] code = "3" -> [bus |-> "IS", protocol |-> "KWPONCAN_FIAT"]
      [] code = "4" -> [bus |-> "IS", protocol |-> "PSA2000"]
AsNamedPair(p) ==
    [p EXCEPT !.bus = DocumentedPair(p.bus).bus, !.protocol = DocumentedPair(p.bus).protocol]

\* C14: a configure with a legacy bus code behaves exactly as the configure of
\* the pair the code stands for, whatever protocol name comes with it: in the
\* state in which it is handled, and for every result of the driver, it makes
\* the same driver calls, reports the same result and leaves the same
\* descriptor and active protocol.
C14_LegacyCodesAsNamedPairs ==
    (cmd_data.command = "configure" /\ ~handled /\ cmd_data.bus \in LegacyCodes) =>
        \A rLine \in StatusResults, rBind \in StatusResults, rInit \in InitResults :
            ConfigureBody(cmd_data, rLine, rBind, rInit)
                = ConfigureBody(AsNamedPair(cmd_data), rLine, rBind, rInit)

\* C14 witness: a configure with bus code "4" and protocol name DIAGONCAN was
\* handled with success as (IS, PSA2000), init handshake included.
C14_Witness ==
    /\ ConfigureHandled
    /\ cmd_data.bus = "4"
    /\ cmd_data.protocol = "DIAGONCAN"
    /\ last.success
    /\ active_protocol = "PSA2000"
    /\ last.calls[Len(last.calls)].fn = "_performInit"

\* C15: only the PSA2000 binding performs the ECU initialization handshake. The
\* init call comes after a successful line selection and a successful protocol
\* bind; a PSA2000 configure reports success exactly when the init call was
\* made and returned a byte count >= 0; no other binding makes an init call.
C15_InitOnlyForPsa2000 ==
    ConfigureHandled =>
        LET cc == ConfigureCalls
            inits == {i \in DOMAIN cc : cc[i].fn = "_performInit"}
        IN  /\ ResolvedProtocol(cmd_data) # "PSA2000" => inits = {}
            /\ inits \subseteq {3}
            /\ 3 \in inits =>
                  /\ cc[1].fn = "_changeComLine" /\ cc[1].rc >= 0
                  /\ cc[2].fn = "_bindProtocol" /\ cc[2].rc >= 0
            /\ ResolvedProtocol(cmd_data) = "PSA2000" =>
                  (last.success <=> (3 \in inits /\ cc[3].rc >= 0))

\* C15 witness: a PSA2000 configure whose init call returned a byte count of
\* zero reported success.
C15_Witness ==
    /\ ConfigureHandled
    /\ cmd_data.protocol = "PSA2000"
    /\ cmd_data.bus = "DIAG"
    /\ last.success
    /\ Len(ConfigureCalls) = 3
    /\ ConfigureCalls[3] = [fn |-> "_performInit", arg |-> currEcuDesc, rc |-> 0]

(***************************************************************************)
(* Properties of the broker's owner and of its bridge process.             *)
(***************************************************************************)
\* a step in which the worker answers a request, and the request answered
ReplyStep == lastWrite'.rid # lastWrite.rid
Answered == IF wpc = "waiting" THEN wreq ELSE request_queue[QueueGetIndex(request_queue)]

\* C16: the owner is set only by a successful connect. When a connect request
\* is answered with success the owner is the requesting session; when it is
\* answered with failure the owner and the connection flag are unchanged; and
\* no other step names a session as owner.
C16_OwnerSetBySuccessfulConnect ==
    [][/\ (ReplyStep /\ Answered.command = "connect") =>
              IF lastWrite'.status = "success"
              THEN current_client' = Answered.client_id
              ELSE UNCHANGED <<current_client, vci_connected>>
       /\ (current_client' # current_client /\ current_client' # None) =>
              /\ ReplyStep
              /\ Answered.command = "connect"
              /\ lastWrite'.status = "success"]_vars

\* C16 witness: the one request executed so far, a connect from the session
\* client_1, was answered with success on the bridge's acknowledgement, and
\* that session is the owner.
C16_Witness ==
    /\ execLog = <<1>>
    /\ lastWrite.rid = 1
    /\ lastWrite.status = "success"
    /\ lastHanded = <<1, 1>>
    /\ current_client = 1
    /\ vci_connected

\* C17: a disconnect request clears the owner. When the broker answers a
\* disconnect request, from whichever session, the owner is empty.
C17_DisconnectClearsOwner ==
    [][(ReplyStep /\ Answered.command = "disconnect") => current_client' = None]_vars

\* C18: whenever a connect request is answered with success, a bridge process
\* is alive at that moment, and the answer rests on that process's
\* acknowledgement of the session or on an earlier one of a process that is
\* still alive.
C18_ConnectSuccessHasLiveProcess ==
    [][(ReplyStep /\ Answered.command = "connect" /\ lastWrite'.status = "success") =>
          proc = "running"]_vars

\* C19: the lifecycle of the bridge process in the broker. A process is started
\* only in the step in which the worker dispatches a connect request; no
\* client request and no closing of a socket stops it: it stops only while
\* stop_server is in progress, and quit is written only by stop_server.
C19_ProcessLifecycle ==
    [][/\ (proc # "running" /\ proc' = "running") =>
              /\ execLog' # execLog
              /\ wreq'.command = "connect"
       /\ (proc = "running" /\ proc' # "running") =>
              /\ ~running
              /\ mpc = "quit_wait"
       /\ (PipeWrite /\ WrittenCommand.name = "quit") =>
              /\ WrittenCommand.by = "main"
              /\ mpc = "serving" /\ mpc' = "quit_wait"]_vars

\* C19 witness: the process started by the first request, a connect, is still
\* running after a second request was answered and after the sockets of all
\* clients were closed; the server has not been stopped.
C19_Witness ==
    /\ proc = "running"
    /\ running
    /\ execLog = <<1, 2>>
    /\ lastWrite.rid = 2
    /\ nconn = MaxConns
    /\ clients = <<>>
    /\ handlers = <<>>

(***************************************************************************)
(* Properties of VCIAdapter's bridge processes.                            *)
(***************************************************************************)
\* C20: no leaked adapter-owning process. At any moment at most one process
\* started by the adapter is alive, and it is the one the adapter's handle
\* names: every process started before the last disconnect has exited, and a
\* disconnect followed by a connect leaves exactly one live process.
C20_NoLeakedProcess ==
    /\ Cardinality(alive) <= 1
    /\ alive \subseteq {bridge_process}
    /\ (lpc = "idle" /\ bridge_process = 0) => alive = {}

\* C20 witness: the first process survived both waits of stop_bridge, the
\* handle was dropped, and the next connect started a second process beside it.
C20_Witness ==
    /\ started = 2
    /\ bridge_process = 2
    /\ alive = {1, 2}
    /\ lpc = "idle"

\* C21: VCIAdapter.disconnect leaves the adapter without a process handle and
\* with connected and configured false, on every path out of stop_bridge
\* (quit handled, terminate after the grace period, or neither).
C21_DisconnectPostState ==
    [][(lpc = "stopping" /\ lpc' = "idle")
        => (bridge_process' = 0 /\ ~a_connected' /\ ~a_configured')]_vars

\* C21 witness: a connected adapter whose disconnect has ended: the handle is
\* gone and connected is still true.
C21_Witness ==
    /\ lpc = "idle"
    /\ bridge_process = 0
    /\ started = 1
    /\ a_connected

(***************************************************************************)
(* Properties of the result of send_receive.                               *)
(***************************************************************************)
\* the status codes of statusToStr that mean the ECU did not answer in time,
\* and those that mean a driver or session error
TimeoutStatus == {-5, -11}
ErrorStatus == {-1, -2, -3, -4, -6, -7, -8, -9, -10, -12, -13, -14, -15}
SendReceiveHandled ==
    handled /\ cmd_data.command = "send_receive" /\ last.calls # <<>>

\* C22: the result of send_receive tells a timeout from a driver error: the
\* result of an exchange whose driver status is in one of the two classes is
\* never the result an exchange with a status of the other class yields.
C22_TimeoutDistinctFromError ==
    SendReceiveHandled =>
        \A other \in ReadResults :
            (\/ last.calls[1].rc \in TimeoutStatus /\ other \in ErrorStatus
             \/ last.calls[1].rc \in ErrorStatus /\ other \in TimeoutStatus)
            => last.response # send_receive(DriverBuffer, other)

\* C22 witness: an exchange ended with NO RESPONSE FROM ECU and the empty result
C22_Witness ==
    /\ SendReceiveHandled
    /\ last.calls[1].rc = -5
    /\ last.response = <<>>

C24_WaitBoundedByCallerTimeout ==
    (w_pc = "returned" /\ w_silent) =>
        /\ w_result = ""
        /\ w_elapsed * 1000 <= w_T + PollSlice * 1000

\* C24 witness: with the default timeout of 1500 ms and a silent bridge the
\* call returned its failure result after 10 seconds.
C24_Witness ==
    /\ w_pc = "returned"
    /\ w_silent
    /\ w_T = 1500
    /\ w_result = ""
    /\ w_elapsed = CommandTimeout

(***************************************************************************)
(* Properties of the operations of VCIAdapter when the process is gone.    *)
(***************************************************************************)
\* C25: fail fast when the process is not running. An operation other than
\* connect that is called while the bridge process is absent or has exited
\* returns its failure value, and nothing was written to the pipe and no
\* response was waited for.
C25_FailFastWithoutProcess ==
    (l_op.op # "none" /\ ~l_op.running) => (~l_op.sent /\ ~l_op.ok)

\* C25 witness: send_receive was called on a configured adapter whose process
\* had exited with the handle still set; it failed and nothing was sent.
C25_Witness ==
    /\ l_op.op = "send_receive"
    /\ l_op.ready
    /\ ~l_op.running
    /\ ~l_op.sent
    /\ bridge_process # 0
    /\ a_configured

(***************************************************************************)
(* Properties of the broker's sessions.                                    *)
(***************************************************************************)
\* C26: every request sent on a connection that stays open gets its one
\* response on that connection: when the worker answers a request whose
\* connection is still open, the response is written to that connection.
C26_AnsweredOnOpenConnection ==
    [][(ReplyStep /\ Answered.sock \in DOMAIN handlers)
        => lastWrite'.to = Answered.sock]_vars

\* C26 witness: the request of a connection that is still open was answered
\* and the response was written to the socket of a later connection.
C26_Witness ==
    /\ lastWrite.rid # 0
    /\ lastWrite.origin \in DOMAIN handlers
    /\ lastWrite.to \in DOMAIN handlers
    /\ lastWrite.to > lastWrite.origin

(***************************************************************************)
(* Properties of the worker's wait for the bridge.                         *)
(***************************************************************************)
\* the bridge has not answered the command of the request the worker waits on
BridgeSilent == wpc = "waiting" /\ respq = <<>>

C28_SendUsesLastSuccessfulConfigure ==
    SendReceiveHandled => last.calls[1].arg = boundDesc

\* C28 witness: a configure succeeded, a later configure failed, and the
\* exchange that followed ran against the descriptor of the failed one.
C28_Witness ==
    /\ SendReceiveHandled
    /\ boundDesc # NoDesc
    /\ last.calls[1].arg # boundDesc

\* C29: the session table holds exactly the connections that were accepted
\* and have not closed, and the count get_status reports is the number of
\* open connections.
C29_TableIsOpenConnections ==
    /\ {clients[k] : k \in DOMAIN clients} = DOMAIN handlers
    /\ active_clients = Cardinality(DOMAIN handlers)

\* C29 witness: two connections are open and the table has one entry, the
\* later connection's, under the id both were given.
C29_Witness ==
    /\ Cardinality(DOMAIN handlers) = 2
    /\ active_clients = 1
    /\ \A s \in DOMAIN handlers : handlers[s] \in DOMAIN clients
    /\ mpc = "serving"

(***************************************************************************)
(* Properties of VCIBridge.connect.                                        *)
(***************************************************************************)
ConnectHandled == handled /\ cmd_data.command = "connect"
OpenSucceeded ==
    \E i \in DOMAIN last.calls :
        last.calls[i].fn = "_openSession" /\ last.calls[i].rc \in {0, 1}

\* C30: connect reports success exactly when the driver's _openSession
\* returned a success code, and whenever it reports failure the bridge is
\* disconnected (its connected flag is false).
C30_ConnectResultAndState ==
    ConnectHandled =>
        /\ last.success <=> OpenSucceeded
        /\ ~last.success => ~connected

\* C30 witness: on a bridge whose session is open, a second connect failed in
\* _openSession; it reported failure and connected is still true.
C30_Witness ==
    /\ ConnectHandled
    /\ last.preConnected
    /\ ~last.success
    /\ Len(last.calls) = 1
    /\ last.calls[1].rc = -4
    /\ connected

C32_LogNeverAResponse ==
    /\ \A i \in DOMAIN response_queue : response_queue[i].command # "log"
    /\ r_returned.command # "log"

\* C32 witness: a log line that stood between two responses has been read and
\* logged, and the request returned the response printed after it.
C32_Witness ==
    /\ Len(r_logged) = 1
    /\ out_stream = <<>>
    /\ r_pc = "returned"
    /\ r_returned.command = r_expected
    /\ r_expected = "send_receive_response"
    /\ r_returned.data = 2

(***************************************************************************)
(* Properties of the exchange operations of VCIBridge.                     *)
(***************************************************************************)
ExchangeCommands ==
    {"send_receive", "send_receive_multiple", "perform_init", "get_analog_data"}
ExchangeHandled == handled /\ cmd_data.command \in ExchangeCommands
Bound == connected /\ currEcuDesc # NoDesc /\ active_protocol # "None"

\* C33: send_receive, send_receive_multiple, perform_init and get_analog_data
\* leave the session flag, the stored descriptor and the bound protocol as
\* they were before the command, whatever the driver returned.
C33_ExchangeKeepsBinding ==
    ExchangeHandled =>
        /\ connected = last.preConnected
        /\ currEcuDesc = last.preDesc
        /\ active_protocol = last.preProto

\* C33 witness: in state Bound a perform_init was refused by the driver, and
\* the bridge is still in state Bound.
C33_Witness ==
    /\ handled /\ cmd_data.command = "perform_init"
    /\ Bound
    /\ last.calls # <<>>
    /\ last.calls[1].rc = -14
    /\ ~last.success

(***************************************************************************)
(* Properties of VCIBridge.ecuToEcuDescriptor.                             *)
(***************************************************************************)
\* an id left-padded with zeros to four hexadecimal digits
RECURSIVE ZeroPad4(_)
ZeroPad4(h) == IF Len(h) >= 4 THEN h ELSE ZeroPad4(<<0>> \o h)

\* C34: for the CAN diagnostic protocol and ids of one to four hexadecimal
\* digits, the descriptor is four bytes: the rx id zero-padded to four digits
\* followed by the tx id zero-padded to four digits.
C34_DescriptorIsPaddedIds ==
    d_pc = "returned" =>
        /\ Len(d_out) = 4
        /\ d_out = HexPairs(ZeroPad4(d_args.rx_h) \o ZeroPad4(d_args.tx_h))

\* C34 witness: for tx id 7 and rx id 57 the descriptor is the two bytes 0x57
\* and 0x07.
C34_Witness ==
    /\ d_pc = "returned"
    /\ d_args = [tx_h |-> <<7>>, rx_h |-> <<5, 7>>]
    /\ d_out = <<87, 7>>

(***************************************************************************)
(* Properties of the ids the accept loop gives out.                        *)
(***************************************************************************)
AcceptStep == nconn' # nconn

\* C35: an accepted connection gets an id that no session in the table has,
\* and accepting leaves the entry of every other session in the table as it
\* was.
C35_AcceptGivesFreshId ==
    [][AcceptStep =>
        /\ handlers'[nconn'] \notin DOMAIN clients
        /\ \A k \in DOMAIN clients :
              k \in DOMAIN clients' /\ clients'[k] = clients[k]]_vars

\* C35 witness: two open connections were given the same id.
C35_Witness ==
    \E s \in DOMAIN handlers, t \in DOMAIN handlers :
        s # t /\ handlers[s] = handlers[t]

(***************************************************************************)
(* Properties of the owner (current_client) and the open connections.      *)
(***************************************************************************)
OpenSessionIds == {handlers[s] : s \in DOMAIN handlers}

\* C36: the owner is always empty or the id of a session whose connection is
\* open.
C36_OwnerIsOpenSession ==
    current_client = None \/ current_client \in OpenSessionIds

\* C36 witness: the only request ever made was the connect of a connection
\* that has closed since; the owner still holds its id, and that id now names
\* a connection accepted later.
C36_Witness ==
    /\ nreq = 1
    /\ current_client # None
    /\ lastWrite.status = "success"
    /\ lastWrite.origin \notin DOMAIN handlers
    /\ \E s \in DOMAIN handlers : handlers[s] = current_client /\ s > lastWrite.origin

(***************************************************************************)
(* Properties of the exchanges of a bridge whose session is closed.        *)
(***************************************************************************)
WriteAndReadHandled ==
    handled /\ cmd_data.command \in {"send_receive", "send_receive_multiple"}

\* C37: the driver's write-and-read is called only while the session is
\* open: a send_receive or send_receive_multiple handled on a bridge whose
\* connected flag is false (after disconnect, before a later configure) makes
\* no driver call and fails.
C37_WriteAndReadOnlyWhenConnected ==
    (WriteAndReadHandled /\ ~last.preConnected) =>
        /\ last.calls = <<>>
        /\ ~last.success

\* C37 witness: after a disconnect, with no configure since, a
\* send_receive_multiple was passed to the driver with the descriptor the
\* earlier configure stored, and returned its data.
C37_Witness ==
    /\ handled /\ cmd_data.command = "send_receive_multiple"
    /\ ~last.preConnected
    /\ last.calls # <<>>
    /\ last.calls[1].fn = "_writeAndReadMultipleFrames"
    /\ last.calls[1].arg = boundDesc
    /\ last.success

(***************************************************************************)
(* Properties of the order of the responses on one connection.             *)
(***************************************************************************)
\* C38: on a connection the responses are written in the order its messages
\* were received: the worker never writes the response to a message on a
\* connection after the 'Invalid JSON request' response to a later message
\* of the same connection was written.
C38_ResponsesInReceiveOrder ==
    [][ReplyStep =>
        ~(/\ lastWrite'.origin = lastInvalid.to
          /\ lastWrite'.to = lastInvalid.to
          /\ lastWrite'.rid < lastInvalid.rid)]_vars

\* C38 witness: the first message of a connection is still in the request
\* queue and the error response to its second message, which was not JSON,
\* has been written to the connection.
C38_Witness ==
    /\ lastInvalid.rid = 2
    /\ \E i \in DOMAIN request_queue :
          request_queue[i].rid = 1 /\ request_queue[i].sock = lastInvalid.to
    /\ lastWrite.rid = 0

(***************************************************************************)
(* Properties of VCIAdapter after a configure that failed.                 *)
(***************************************************************************)
\* C39: after a configure call returned failure, and until a later configure
\* succeeds, is_configured() is false and send_receive returns its failure
\* value without sending a command.
C39_FailedConfigureUnconfigures ==
    [][/\ l_cfg' = "failed" => ~a_configured'
       /\ (LOperation /\ l_cfg = "failed" /\ l_op'.op = "send_receive") => ~l_op'.sent]_vars

\* C39 witness: the last configure call failed, is_configured() is true, and
\* the send_receive called after it sent its command to the bridge.
C39_Witness ==
    /\ l_cfg = "failed"
    /\ a_connected
    /\ a_configured
    /\ l_op.op = "send_receive"
    /\ l_op.sent

=============================================================================
